---- MODULE Spec2Model ----
(***************************************************************************)
(* Weather Data Aggregation Service: the provider fan-out engine.          *)
(*                                                                         *)
(*   src/app/http/http_helper.py   SimpleTokenBucket, get_bucket,          *)
(*                                 make_api_request                        *)
(*   src/app/providers/*.py        the three adapters (fetch_weather)      *)
(*   src/app/core/service.py       WeatherAggregationService               *)
(*   src/app/core/cache.py         WeatherCache                            *)
(*                                                                         *)
(* The program is one asyncio event loop: a coroutine runs without         *)
(* interruption from one await that suspends to the next one, so every     *)
(* action below is the code between two suspension points.                 *)
(*                                                                         *)
(* Time is a counter of ticks.  Bucket levels are floats in the code; here *)
(* they are integers counted in 1/TokenUnit of a token.                    *)
(***************************************************************************)
EXTENDS Integers, Sequences, FiniteSets, TLC

VARIABLES
    now,        \* time.time(), in ticks
    buckets,    \* http_helper._buckets : timeout_key -> SimpleTokenBucket
    calls,      \* the activation of make_api_request running in each slot
    api_keys,   \* config.OPENWEATHER_API_KEY, config.WEATHERAPI_KEY: are they set
    cache,      \* cache.weather_cache
    req,        \* the activation of get_aggregated_weather
    tasks,      \* the three fetch_weather coroutines handed to asyncio.gather
    started,    \* history: requests received so far
    ops,        \* history: the calls made on a WeatherCache, oldest first
    probe,      \* the last direct call of a function: its arguments and result
    client      \* http_client._global_session and the sessions created

httpVars == <<buckets, calls>>
svcVars == <<api_keys, client, cache, req, tasks, started, ops, probe>>
vars == <<now, buckets, calls, api_keys, client, cache, req, tasks, started, ops, probe>>

(***************************************************************************)
(* http_client: sessions are numbered in the order of their creation;      *)
(*   global   _global_session, 0 for None                                  *)
(*   closed   session i's closed property, for every session created       *)
(*   closing  the activations of close_global_session suspended in         *)
(*            await _global_session.close()                                *)
(*   got      history: what the last get_global_session returned           *)
(***************************************************************************)
NoClient == [global |-> 0, closed |-> <<>>, closing |-> {}, got |-> 0]

\* sessions created in one run
MaxSessions == 5

\* is _global_session None or closed
NoOpenSession(c) == c.global = 0 \/ c.closed[c.global]

\* get_global_session: the module state afterwards, got being the return
get_global_session(c) ==
    IF NoOpenSession(c)
    THEN [c EXCEPT !.closed = Append(c.closed, FALSE),
                   !.global = Len(c.closed) + 1,
                   !.got = Len(c.closed) + 1]
    ELSE [c EXCEPT !.got = c.global]

\* after lifespan's startup: await get_global_session()
Started == get_global_session(NoClient)

\* no function was called directly
NoProbe == [fn |-> "", input |-> <<>>, output |-> <<>>]

(***************************************************************************)
(* Configuration, src/app/config.py.  Every value of RATE_LIMITS and       *)
(* RETRY_CONFIG is read from the environment; MAX_RETRIES is kept at its   *)
(* default, the bucket capacities are a small deployment.                  *)
(***************************************************************************)
MAX_RETRIES == 3

\* bucket levels are counted in 1/TokenUnit of a token
TokenUnit == 2

\* capacity of a bucket, in tokens
MaxTokens == 2

\* the clock stops at MaxTime ticks
MaxTime == 2

Keys == {"openweather", "weatherapi", "openmeteo"}

\* the callers of make_api_request: the three adapters
Slots == {"OpenWeatherMap", "WeatherAPI", "OpenMeteo"}

\* RATE_LIMITS.get(provider, default): capacity in tokens, refill in
\* 1/TokenUnit of a token per tick
RATE_LIMITS(k) ==
    CASE k = "openweather" -> [tokens |-> MaxTokens, refill_per_sec |-> 1]
      [] k = "weatherapi"  -> [tokens |-> MaxTokens, refill_per_sec |-> 1]
      [] k = "openmeteo"   -> [tokens |-> MaxTokens, refill_per_sec |-> TokenUnit]
      [] OTHER             -> [tokens |-> MaxTokens, refill_per_sec |-> 1]

Min(a, b) == IF a <= b THEN a ELSE b

(***************************************************************************)
(* SimpleTokenBucket                                                       *)
(***************************************************************************)
NoBucket == [exists |-> FALSE, max_tokens |-> 0, refill_rate |-> 0,
             tokens |-> 0, last_refill |-> 0]

\* SimpleTokenBucket.__init__
NewBucket(k, t) ==
    [exists |-> TRUE,
     max_tokens |-> RATE_LIMITS(k).tokens * TokenUnit,
     refill_rate |-> RATE_LIMITS(k).refill_per_sec,
     tokens |-> RATE_LIMITS(k).tokens * TokenUnit,
     last_refill |-> t]

get_bucketAlwaysNew(bs, k, t) == NewBucket(k, t)

\* get_bucket: the bucket of the key, created on first use
get_bucket(bs, k, t) == IF bs[k].exists THEN bs[k] ELSE NewBucket(k, t)

RefillTwice(b, t) ==
    [b EXCEPT !.tokens = Min(b.max_tokens,
                             b.tokens + 2 * (t - b.last_refill) * b.refill_rate),
              !.last_refill = t]

\* SimpleTokenBucket._refill at time t
Refill(b, t) ==
    [b EXCEPT !.tokens = Min(b.max_tokens,
                             b.tokens + (t - b.last_refill) * b.refill_rate),
              !.last_refill = t]

HasTokenAny(b) == b.tokens > 0

\* the test of wait_for_token: at least 1.0 token
HasToken(b) == b.tokens >= TokenUnit

\* wait_for_token, self.tokens -= 1.0
Consume(b) == [b EXCEPT !.tokens = b.tokens - TokenUnit]

\* make_api_request, bucket.tokens = min(bucket.max_tokens, bucket.tokens + 1)
Refund(b) == [b EXCEPT !.tokens = Min(b.max_tokens, b.tokens + TokenUnit)]

\* the sleep of wait_for_token, 1.0 / refill_rate, in ticks (rounded up:
\* asyncio.sleep never returns early)
TokenSleep(b) == (TokenUnit + b.refill_rate - 1) \div b.refill_rate

(***************************************************************************)
(* What one HTTP GET can end in                                            *)
(***************************************************************************)
StatusCodes == {200, 302, 404, 429, 503}

\* bodies of a 200: unparseable JSON, a document with the expected fields,
\* a document without them, an empty list
Bodies == {"unparseable", "good", "malformed", "empty"}

Outcomes ==
    [kind : {"http"}, code : {200}, body : Bodies]
    \cup [kind : {"http"}, code : StatusCodes \ {200}, body : {"none"}]
    \cup [kind : {"timeout", "network", "unexpected"}, code : {0}, body : {"none"}]

\* last_error; code is the status the message carries, 0 if none
Err(msg, code) == [msg |-> msg, code |-> code]
UnknownError == Err("Unknown error", 0)

\* the "error" text of a result: last_error itself, or
\* "Failed after {n} attempts: {last_error}"
ErrorText(n, e) == [failed_after |-> n, msg |-> e.msg, code |-> e.code]
NoErrorText == ErrorText(0, Err("", 0))

\* what make_api_request hands to its caller
NoRet == [kind |-> "none", status |-> "", error |-> NoErrorText,
          attempts |-> 0, data |-> "none"]
Success(attempt_num, body) ==
    [kind |-> "return", status |-> "success", error |-> NoErrorText,
     attempts |-> attempt_num, data |-> body]
Failure(attempt_num, text) ==
    [kind |-> "return", status |-> "failure", error |-> text,
     attempts |-> attempt_num, data |-> "none"]
Raised == [kind |-> "raise", status |-> "", error |-> NoErrorText,
           attempts |-> 0, data |-> "none"]

\* What one pass through the body of the for loop does with the outcome of
\* its GET:
\*   ctl      "return" | "continue" | "break" | "raise"
\*   refund   the bucket gets a token back
Step(ctl, e, refund, ret) ==
    [ctl |-> ctl, last_error |-> e, refund |-> refund, ret |-> ret]

OnOkAnyBody(attempt, last_error, body) ==
    Step("return", last_error, FALSE, Success(attempt + 1, body))

\* status 200: response.json() and return, or except Exception as json_error
OnOk(attempt, last_error, body) ==
    IF body # "unparseable"
    THEN Step("return", last_error, FALSE, Success(attempt + 1, body))
    ELSE Step("continue", Err("Invalid JSON response", 0), FALSE, NoRet)

\* status 429: the token goes back, retry
OnRateLimited(attempt) == Step("continue", Err("Rate limited", 429), TRUE, NoRet)

\* 500 <= status < 600: retry
OnServerError(attempt, code) == Step("continue", Err("Server error", code), FALSE, NoRet)

OnClientErrorRetry(attempt, code) ==
    Step("continue", Err("Client error", code), FALSE, NoRet)

\* 400 <= status < 500: return the failure, no retry
OnClientError(attempt, code) ==
    Step("return", Err("Client error", code), FALSE,
         Failure(attempt + 1, ErrorText(0, Err("Client error", code))))

\* any other status: retry
OnOtherStatus(attempt, code) ==
    Step("continue", Err("Unexpected status", code), FALSE, NoRet)

OnTimeoutEarlyBreak(attempt) ==
    Step(IF attempt >= MAX_RETRIES - 1 THEN "break" ELSE "continue",
         Err("Request timeout", 0), FALSE, NoRet)

\* except asyncio.TimeoutError
OnTimeout(attempt) ==
    Step(IF attempt = MAX_RETRIES THEN "break" ELSE "continue",
         Err("Request timeout", 0), FALSE, NoRet)

\* except aiohttp.ClientError
OnNetworkError(attempt) ==
    Step(IF attempt = MAX_RETRIES THEN "break" ELSE "continue",
         Err("Network error", 0), FALSE, NoRet)

OnUnexpectedReraise(attempt) ==
    Step("raise", Err("Unexpected error", 0), TRUE, Raised)

\* except Exception: the token goes back, return the failure
OnUnexpected(attempt) ==
    Step("return", Err("Unexpected error", 0), TRUE,
         Failure(attempt + 1, ErrorText(0, Err("Unexpected error", 0))))

\* the try statement of the loop body, for the attempt with loop index
\* attempt and outcome o of its GET
AttemptOutcome(attempt, last_error, o) ==
    IF o.kind = "http" THEN
        IF o.code = 200 THEN OnOk(attempt, last_error, o.body)
        ELSE IF o.code = 429 THEN OnRateLimited(attempt)
        ELSE IF 500 <= o.code /\ o.code < 600 THEN OnServerError(attempt, o.code)
        ELSE IF 400 <= o.code /\ o.code < 500 THEN OnClientError(attempt, o.code)
        ELSE OnOtherStatus(attempt, o.code)
    ELSE IF o.kind = "timeout" THEN OnTimeout(attempt)
    ELSE IF o.kind = "network" THEN OnNetworkError(attempt)
    ELSE OnUnexpected(attempt)

\* RETRY_CONFIG, delays in milliseconds, jitter_factor in percent
BASE_DELAY == 1000
MAX_DELAY == 16000
BACKOFF_MULTIPLIER == 2
JITTER_FACTOR == 10
MIN_DELAY == 100

\* random.random() * 2 - 1 takes the values k / JitterSteps
JitterSteps == 2
Jitters == (0 - JitterSteps)..(JitterSteps - 1)

\* calculate_retry_delay before the jitter: min(delay, max_delay)
CappedDelay(attempt) == Min(BASE_DELAY * (BACKOFF_MULTIPLIER ^ attempt), MAX_DELAY)

calculate_retry_delayUncapped(attempt, k) ==
    LET delay == BASE_DELAY * (BACKOFF_MULTIPLIER ^ attempt)
        jitter == (delay * JITTER_FACTOR * k) \div (100 * JitterSteps)
    IN  IF delay + jitter > MIN_DELAY THEN delay + jitter ELSE MIN_DELAY

\* calculate_retry_delay(attempt) when random.random() * 2 - 1 is
\* k / JitterSteps
calculate_retry_delay(attempt, k) ==
    LET delay == CappedDelay(attempt)
        jitter == (delay * JITTER_FACTOR * k) \div (100 * JitterSteps)
    IN  IF delay + jitter > MIN_DELAY THEN delay + jitter ELSE MIN_DELAY

\* the delay before jitter of the sleep that opens the loop iteration with
\* index attempt > 0: calculate_retry_delay(attempt - 1)
BackoffDelay(attempt) == CappedDelay(attempt - 1)

HasNextAttemptOffByOne(attempt) == attempt + 1 < MAX_RETRIES + 2

\* for attempt in range(max_retries + 1): is there a next iteration
HasNextAttempt(attempt) == attempt + 1 < MAX_RETRIES + 1

\* the return after the loop, "All retries failed"
Exhausted(last_error) ==
    Failure(MAX_RETRIES + 1, ErrorText(MAX_RETRIES + 1, last_error))

(***************************************************************************)
(* make_api_request                                                        *)
(*   pc  "none"         no activation                                      *)
(*       "start"        called, not yet run                                *)
(*       "token_sleep"  in the asyncio.sleep of wait_for_token             *)
(*       "in_flight"    in session.get, GET issued                         *)
(*       "backoff"      in the asyncio.sleep before a retry                *)
(*       "done"         returned (or raised): ret                          *)
(*   took, gave, gets are history: bucket units this activation deducted   *)
(*   and gave back, GETs it issued.  slept is history too: the delays,     *)
(*   before jitter, of the backoff sleeps it went into.                    *)
(***************************************************************************)
NoCall == [pc |-> "none", key |-> "", name |-> "", attempt |-> 0,
           last_error |-> UnknownError, wake |-> 0, ret |-> NoRet,
           took |-> 0, gave |-> 0, gets |-> 0, slept |-> <<>>]

NewCall(key, name) == [NoCall EXCEPT !.pc = "start", !.key = key, !.name = name]

\* session.get of the current attempt
IssueGet(c) == [c EXCEPT !.pc = "in_flight", !.gets = c.gets + 1]

\* one iteration of the while loop of wait_for_token, run by the call in
\* slot s; on a token the first attempt follows without suspension
TryToken(s, c) ==
    LET b == Refill(get_bucket(buckets, c.key, now), now)
    IN  IF HasToken(b)
        THEN /\ buckets' = [buckets EXCEPT ![c.key] = Consume(b)]
             /\ calls' = [calls EXCEPT ![s] =
                            IssueGet([c EXCEPT !.took = c.took + TokenUnit,
                                               !.wake = 0])]
        ELSE /\ buckets' = [buckets EXCEPT ![c.key] = b]
             /\ calls' = [calls EXCEPT ![s] =
                            [c EXCEPT !.pc = "token_sleep",
                                      !.wake = now + TokenSleep(b)]]

\* make_api_request is entered: get_bucket, then wait_for_token
Enter(s) ==
    /\ calls[s].pc = "start"
    /\ TryToken(s, calls[s])
    /\ UNCHANGED <<now, svcVars>>

\* the sleep of wait_for_token is over
WakeToken(s) ==
    /\ calls[s].pc = "token_sleep"
    /\ now >= calls[s].wake
    /\ TryToken(s, calls[s])
    /\ UNCHANGED <<now, svcVars>>

\* the call in slot s after outcome o of its GET
AfterResponse(c, o) ==
    LET r == AttemptOutcome(c.attempt, c.last_error, o)
        d == [c EXCEPT !.last_error = r.last_error]
    IN  CASE r.ctl = "return" -> [d EXCEPT !.pc = "done", !.ret = r.ret]
          [] r.ctl = "raise"  -> [d EXCEPT !.pc = "done", !.ret = Raised]
          [] r.ctl = "break"  -> [d EXCEPT !.pc = "done",
                                           !.ret = Exhausted(r.last_error)]
          [] OTHER ->
                IF HasNextAttempt(c.attempt)
                THEN [d EXCEPT !.pc = "backoff", !.attempt = c.attempt + 1,
                               !.slept = Append(c.slept, BackoffDelay(c.attempt + 1))]
                ELSE [d EXCEPT !.pc = "done", !.ret = Exhausted(r.last_error)]

\* the call c and its bucket b after outcome o of its GET
Responded(c, o, b) ==
    LET r == AttemptOutcome(c.attempt, c.last_error, o)
        nb == IF r.refund THEN Refund(b) ELSE b
    IN  [call |-> [AfterResponse(c, o) EXCEPT !.gave = c.gave + (nb.tokens - b.tokens)],
         bucket |-> nb]

\* the GET of the call in slot s ends in outcome o
Response(s, o) ==
    LET c == calls[s]
        n == Responded(c, o, buckets[c.key])
    IN  /\ c.pc = "in_flight"
        /\ buckets' = [buckets EXCEPT ![c.key] = n.bucket]
        /\ calls' = [calls EXCEPT ![s] = n.call]
        /\ UNCHANGED <<now, svcVars>>

\* the backoff sleep is over: the next attempt issues its GET
Retry(s) ==
    LET c == calls[s]
    IN  /\ c.pc = "backoff"
        /\ calls' = [calls EXCEPT ![s] = IssueGet(c)]
        /\ UNCHANGED <<now, buckets, svcVars>>

\* time passes
Tick ==
    /\ now < MaxTime
    /\ now' = now + 1
    /\ UNCHANGED <<httpVars, svcVars>>

(***************************************************************************)
(* Strings are sequences of one-character strings.                         *)
(***************************************************************************)
Str1Digits == <<"0", "1", "2", "3", "4", "5", "6", "7", "8", "9">>
UpperCase == <<"A", "B", "C", "D", "E", "F", "G", "H", "I", "J", "K", "L", "M",
               "N", "O", "P", "Q", "R", "S", "T", "U", "V", "W", "X", "Y", "Z">>
LowerCase == <<"a", "b", "c", "d", "e", "f", "g", "h", "i", "j", "k", "l", "m",
               "n", "o", "p", "q", "r", "s", "t", "u", "v", "w", "x", "y", "z">>

RangeOf(q) == {q[i] : i \in 1..Len(q)}
IndexOf(q, c) == CHOOSE i \in 1..Len(q) : q[i] = c
SetMin(S) == CHOOSE x \in S : \A y \in S : x <= y
SetMax(S) == CHOOSE x \in S : \A y \in S : y <= x

IsDigit(c) == c \in RangeOf(Str1Digits)
\* the pattern [a-zA-Z]
IsAlpha(c) == c \in RangeOf(UpperCase) \cup RangeOf(LowerCase)

\* str.lower
Lower(str) ==
    [i \in 1..Len(str) |->
        IF str[i] \in RangeOf(UpperCase)
        THEN LowerCase[IndexOf(UpperCase, str[i])] ELSE str[i]]

\* str.strip
Strip(str) ==
    LET keep == {i \in 1..Len(str) : str[i] # " "}
    IN  IF keep = {} THEN <<>> ELSE SubSeq(str, SetMin(keep), SetMax(keep))

\* str.count(c)
Count(str, c) == Cardinality({i \in 1..Len(str) : str[i] = c})

\* str.split(',') of a string with exactly one comma
BeforeComma(str) == SubSeq(str, 1, IndexOf(str, ",") - 1)
AfterComma(str) == SubSeq(str, IndexOf(str, ",") + 1, Len(str))

RECURSIVE DigitsValue(_)
DigitsValue(q) ==
    IF q = <<>> THEN 0
    ELSE DigitsValue(SubSeq(q, 1, Len(q) - 1)) * 10 + (IndexOf(Str1Digits, q[Len(q)]) - 1)

RECURSIVE DigitsOf(_)
DigitsOf(n) ==
    IF n < 10 THEN <<Str1Digits[n + 1]>>
    ELSE DigitsOf(n \div 10) \o <<Str1Digits[(n % 10) + 1]>>

\* the pattern -?\d+(?:\.\d+)? on a whole string
IsPlainNumber(str) ==
    LET u == IF str # <<>> /\ str[1] = "-" THEN Tail(str) ELSE str
        dots == {i \in 1..Len(u) : u[i] = "."}
    IN  /\ u # <<>>
        /\ \A i \in 1..Len(u) : IsDigit(u[i]) \/ u[i] = "."
        /\ Cardinality(dots) <= 1
        /\ \A i \in dots : 1 < i /\ i < Len(u)

\* float(str) accepts: an optional sign, digits with at most one point and
\* at least one digit (exponents, inf and nan are outside the alphabet of
\* the model)
IsFloatLiteral(str) ==
    LET u == IF str # <<>> /\ str[1] \in {"-", "+"} THEN Tail(str) ELSE str
        dots == {i \in 1..Len(u) : u[i] = "."}
    IN  /\ \A i \in 1..Len(u) : IsDigit(u[i]) \/ u[i] = "."
        /\ Cardinality(dots) <= 1
        /\ \E i \in 1..Len(u) : IsDigit(u[i])

\* float(str) of a literal: the decimal neg * m / 10^e, exactly
PyFloat(str) ==
    LET neg == str[1] = "-"
        u == IF str[1] \in {"-", "+"} THEN Tail(str) ELSE str
        dots == {i \in 1..Len(u) : u[i] = "."}
        ds == SelectSeq(u, IsDigit)
    IN  [neg |-> neg, m |-> DigitsValue(ds),
         e |-> IF dots = {} THEN 0 ELSE Len(u) - SetMax(dots)]

\* x <= n and x >= -n for a parsed decimal x and a natural n
InRange(x, n) == x.m <= n * (10 ^ x.e)

\* n / d rounded to the nearest integer, ties to even
RoundDiv(n, d) ==
    LET q == n \div d
        r == n % d
    IN  IF 2 * r < d THEN q
        ELSE IF 2 * r > d THEN q + 1
        ELSE IF q % 2 = 0 THEN q ELSE q + 1

\* f"{x:.4f}"
Format4(x) ==
    LET t == IF x.e <= 4 THEN x.m * (10 ^ (4 - x.e)) ELSE RoundDiv(x.m, 10 ^ (x.e - 4))
        frac == DigitsOf(t % 10000)
        pad == [i \in 1..(4 - Len(frac)) |-> "0"]
    IN  (IF x.neg THEN <<"-">> ELSE <<>>) \o DigitsOf(t \div 10000) \o <<".">> \o pad \o frac

(***************************************************************************)
(* src/app/utils/utils.py                                                  *)
(***************************************************************************)
MIN_CITY_NAME_LENGTH == 2
MAX_CITY_NAME_LENGTH == 100
LATITUDE_MAX == 90
LONGITUDE_MAX == 180

\* is_coordinates
is_coordinates(location) ==
    LET loc == Strip(location)
    IN  /\ Count(loc, ",") = 1
        /\ IsPlainNumber(BeforeComma(loc))
        /\ IsPlainNumber(AfterComma(loc))

\* the ValidationError messages; "" is no error
\* parse_coordinates: the message it raises, for an input with one comma
\* that is_coordinates accepted
parse_coordinates_error(location) ==
    LET loc == Strip(location)
        lat == PyFloat(Strip(BeforeComma(loc)))
        lon == PyFloat(Strip(AfterComma(loc)))
    IN  IF ~InRange(lat, LATITUDE_MAX) THEN "Latitude out of range"
        ELSE IF ~InRange(lon, LONGITUDE_MAX) THEN "Longitude out of range"
        ELSE ""

validate_city_nameNoLetter(name) ==
    LET city == Strip(name)
    IN  IF city = <<>> THEN "City name cannot be empty"
        ELSE IF Len(city) < MIN_CITY_NAME_LENGTH THEN "City name must be at least 2 characters"
        ELSE IF Len(city) > MAX_CITY_NAME_LENGTH THEN "City name too long"
        ELSE ""

\* validate_city_name
validate_city_name(name) ==
    LET city == Strip(name)
    IN  IF city = <<>> THEN "City name cannot be empty"
        ELSE IF Len(city) < MIN_CITY_NAME_LENGTH THEN "City name must be at least 2 characters"
        ELSE IF Len(city) > MAX_CITY_NAME_LENGTH THEN "City name too long"
        ELSE IF ~\E i \in 1..Len(city) : IsAlpha(city[i])
             THEN "City name must contain at least one letter"
        ELSE ""

validate_input_formatLenient(location) ==
    LET loc == Strip(location)
        comma_count == Count(loc, ",")
    IN  IF loc = <<>> THEN "Location cannot be empty"
        ELSE IF comma_count = 0 THEN validate_city_name(loc)
        ELSE IF comma_count = 1 THEN
            IF ~is_coordinates(loc) THEN "Invalid coordinate format"
            ELSE parse_coordinates_error(loc)
        ELSE validate_city_name(loc)

\* validate_input_format
validate_input_format(location) ==
    LET loc == Strip(location)
        comma_count == Count(loc, ",")
    IN  IF loc = <<>> THEN "Location cannot be empty"
        ELSE IF comma_count = 0 THEN validate_city_name(loc)
        ELSE IF comma_count = 1 THEN
            IF ~is_coordinates(loc) THEN "Invalid coordinate format"
            ELSE parse_coordinates_error(loc)
        ELSE "Too many commas"

(***************************************************************************)
(* src/app/core/cache.py: WeatherCache over cachetools.TTLCache.           *)
(*   entries   the cached items, least recently used first                 *)
(***************************************************************************)
\* CACHE_TTL_SECONDS, in ticks
CacheTtl == 2

\* max_size of WeatherCache
CacheMaxSize == 1

EmptyCache == [entries |-> <<>>, hits |-> 0, misses |-> 0]

normalize_keyCaseSensitive(location) ==
    LET normalized == Strip(location)
    IN  IF /\ Count(normalized, ",") = 1
           /\ IsFloatLiteral(Strip(BeforeComma(normalized)))
           /\ IsFloatLiteral(Strip(AfterComma(normalized)))
        THEN Format4(PyFloat(Strip(BeforeComma(normalized)))) \o <<",">>
             \o Format4(PyFloat(Strip(AfterComma(normalized))))
        ELSE normalized

\* WeatherCache._normalize_key
normalize_key(location) ==
    LET normalized == Lower(Strip(location))
    IN  IF /\ Count(normalized, ",") = 1
           /\ IsFloatLiteral(Strip(BeforeComma(normalized)))
           /\ IsFloatLiteral(Strip(AfterComma(normalized)))
        THEN Format4(PyFloat(Strip(BeforeComma(normalized)))) \o <<",">>
             \o Format4(PyFloat(Strip(AfterComma(normalized))))
        ELSE normalized

\* position of the key among the entries, 0 if absent
EntryAt(entries, key) ==
    IF \E i \in 1..Len(entries) : entries[i].key = key
    THEN CHOOSE i \in 1..Len(entries) : entries[i].key = key
    ELSE 0

Without(entries, i) == SubSeq(entries, 1, i - 1) \o SubSeq(entries, i + 1, Len(entries))

ExpiredLate(e, t) == ~(t <= e.expires)

\* TTLCache: has the item expired at time t
Expired(e, t) == ~(t < e.expires)

\* TTLCache.expire: drop what has expired at time t
Expire(entries, t) == SelectSeq(entries, LAMBDA e : ~Expired(e, t))

\* the cached key -> value mapping that a lookup at time t can see
Contents(c, t) == {<<e.key, e.value>> : e \in RangeOf(Expire(c.entries, t))}

CacheGetPop(c, location, t) ==
    LET key == normalize_key(location)
        i == EntryAt(c.entries, key)
    IN  IF i # 0 /\ ~Expired(c.entries[i], t)
        THEN [found |-> TRUE, value |-> c.entries[i].value,
              cache |-> [c EXCEPT !.entries = Without(c.entries, i), !.hits = c.hits + 1]]
        ELSE [found |-> FALSE, value |-> <<>>,
              cache |-> [c EXCEPT !.misses = c.misses + 1]]

\* WeatherCache.get at time t: the value (found) and the cache afterwards
CacheGet(c, location, t) ==
    LET key == normalize_key(location)
        i == EntryAt(c.entries, key)
        touched == IF i = 0 THEN c.entries
                   ELSE Without(c.entries, i) \o <<c.entries[i]>>
    IN  IF i # 0 /\ ~Expired(c.entries[i], t)
        THEN [found |-> TRUE, value |-> c.entries[i].value,
              cache |-> [c EXCEPT !.entries = touched, !.hits = c.hits + 1]]
        ELSE [found |-> FALSE, value |-> <<>>,
              cache |-> [c EXCEPT !.entries = touched, !.misses = c.misses + 1]]

CacheSetAtEvictNewest(c, location, value, t, maxsize) ==
    LET key == normalize_key(location)
        live == Expire(c.entries, t)
        i == EntryAt(live, key)
        item == [key |-> key, value |-> value, expires |-> t + CacheTtl]
        room == IF i # 0 THEN Without(live, i)
                ELSE IF Len(live) + 1 > maxsize
                     THEN SubSeq(live, 1, maxsize - 1)
                     ELSE live
    IN  [c EXCEPT !.entries = room \o <<item>>]

\* WeatherCache.set at time t, the cache being a WeatherCache(max_size=maxsize)
CacheSetAt(c, location, value, t, maxsize) ==
    LET key == normalize_key(location)
        live == Expire(c.entries, t)
        i == EntryAt(live, key)
        item == [key |-> key, value |-> value, expires |-> t + CacheTtl]
        room == IF i # 0 THEN Without(live, i)
                ELSE IF Len(live) + 1 > maxsize
                     THEN SubSeq(live, Len(live) + 2 - maxsize, Len(live))
                     ELSE live
    IN  [c EXCEPT !.entries = room \o <<item>>]

CacheSetNoEvict(c, location, value, t) ==
    LET key == normalize_key(location)
        live == Expire(c.entries, t)
        i == EntryAt(live, key)
        item == [key |-> key, value |-> value, expires |-> t + CacheTtl]
        room == IF i # 0 THEN Without(live, i) ELSE live
    IN  [c EXCEPT !.entries = room \o <<item>>]

\* WeatherCache.set at time t
CacheSet(c, location, value, t) ==
    LET key == normalize_key(location)
        live == Expire(c.entries, t)
        i == EntryAt(live, key)
        item == [key |-> key, value |-> value, expires |-> t + CacheTtl]
        room == IF i # 0 THEN Without(live, i)
                ELSE IF Len(live) + 1 > CacheMaxSize
                     THEN SubSeq(live, Len(live) + 2 - CacheMaxSize, Len(live))
                     ELSE live
    IN  [c EXCEPT !.entries = room \o <<item>>]

CacheClearStats(c) == EmptyCache

\* WeatherCache.clear
CacheClear(c) == [c EXCEPT !.entries = <<>>]

(***************************************************************************)
(* src/app/providers: what fetch_weather hands to asyncio.gather.          *)
(*   kind  "data"       a normalized result, source.status "success"       *)
(*         "failure"    the failure marker of _create_failure_response     *)
(*         "None"       None                                               *)
(*         "exception"  fetch_weather raised                               *)
(* Temperatures are in tenths of a degree, humidities in percent.          *)
(***************************************************************************)
\* None, and a value that is not None
Null == [null |-> TRUE, v |-> 0]
Val(v) == [null |-> FALSE, v |-> v]

NoSource == [provider |-> "", status |-> ""]
NoResult == [kind |-> "none", temperature |-> Null, humidity |-> Null,
             description |-> Null, source |-> NoSource]
ResultNone == [NoResult EXCEPT !.kind = "None"]
ResultException == [NoResult EXCEPT !.kind = "exception"]

\* what the upstream of each provider reports in a well-formed body
Upstream(p) ==
    CASE p = "OpenWeatherMap" -> [temperature |-> Val(284), humidity |-> Val(75),
                                  description |-> Val("Clear")]
      [] p = "WeatherAPI"     -> [temperature |-> Val(290), humidity |-> Val(78),
                                  description |-> Val("Clear")]
      [] OTHER                -> [temperature |-> Val(288), humidity |-> Null,
                                  description |-> Val("Overcast")]

\* _process_successful_response of provider p
process_successful_response(p) ==
    [kind |-> "data", temperature |-> Upstream(p).temperature,
     humidity |-> Upstream(p).humidity, description |-> Upstream(p).description,
     source |-> [provider |-> p, status |-> "success"]]

\* BaseWeatherProvider._create_failure_response
create_failure_response(p) ==
    [NoResult EXCEPT !.kind = "failure",
                     !.source = [provider |-> p, status |-> "failure"]]

BaseAfterRequestSwallow(p, ret) ==
    IF ret.kind = "raise" THEN create_failure_response(p)
    ELSE IF ret.status = "success" THEN
        IF ret.data = "good" THEN process_successful_response(p) ELSE ResultException
    ELSE create_failure_response(p)

\* BaseWeatherProvider.fetch_weather after make_api_request handed back ret:
\* a body without the expected fields raises in
\* _process_successful_response and the except clause raises it again
BaseAfterRequest(p, ret) ==
    IF ret.kind = "raise" THEN ResultException
    ELSE IF ret.status = "success" THEN
        IF ret.data = "good" THEN process_successful_response(p) ELSE ResultException
    ELSE create_failure_response(p)

\* OpenMeteoProvider.fetch_weather after the forecast request handed back
\* ret: every exception is swallowed and None returned
OpenMeteoAfterRequest(ret) ==
    IF ret.kind = "raise" THEN ResultNone
    ELSE IF ret.status = "success" THEN
        IF ret.data = "good" THEN process_successful_response("OpenMeteo") ELSE ResultNone
    ELSE create_failure_response("OpenMeteo")

GeocodedAnyReturn(ret) == ret.kind = "return"

\* OpenMeteoProvider._geocode_location after the geocoding request handed
\* back ret: did it yield coordinates
Geocoded(ret) == ret.kind = "return" /\ ret.status = "success" /\ ret.data = "good"

\* timeout_key of each adapter
TimeoutKey(p) ==
    CASE p = "OpenWeatherMap" -> "openweather"
      [] p = "WeatherAPI"     -> "weatherapi"
      [] OTHER                -> "openmeteo"

(***************************************************************************)
(* src/app/core/service.py                                                 *)
(***************************************************************************)
\* the order of the tasks in _fetch_all_providers and of providers in
\* _process_results
Providers == <<"OpenWeatherMap", "WeatherAPI", "OpenMeteo">>

validate_api_keysOpenWeatherOnly(k) ==
    IF k.openweather THEN "" ELSE "Missing required API keys"

\* validate_api_keys: the ConfigurationError it raises, "" if none
validate_api_keys(k) ==
    IF k.openweather /\ k.weatherapi THEN "" ELSE "Missing required API keys"

\* _process_results, the test at the head of the loop body
Usable(result) == result.kind \in {"data", "failure"}

WeatherDataSkipLast(results) ==
    SelectSeq(SubSeq(results, 1, Len(results) - 1),
              LAMBDA x : Usable(x) /\ x.source.status = "success")

\* _process_results: weather_data
WeatherData(results) ==
    SelectSeq(results, LAMBDA x : Usable(x) /\ x.source.status = "success")

AllSourcesUsableOnly(results) ==
    LET usable == SelectSeq(results, Usable)
    IN  [i \in 1..Len(usable) |-> usable[i].source]

\* _process_results: all_sources
AllSources(results) ==
    [i \in 1..Len(results) |->
        IF Usable(results[i]) THEN results[i].source
        ELSE [provider |-> Providers[i], status |-> "failure with exception"]]

\* the non-null values of a field, in the order of weather_data
NonNull(weather_data, field) ==
    LET present == SelectSeq(weather_data, LAMBDA d : ~d[field].null)
    IN  [i \in 1..Len(present) |-> present[i][field].v]

RECURSIVE Sorted(_)
Sorted(q) ==
    IF q = <<>> THEN <<>>
    ELSE LET i == CHOOSE j \in 1..Len(q) : \A k \in 1..Len(q) : q[j] <= q[k]
         IN  <<q[i]>> \o Sorted(Without(q, i))

RECURSIVE Sum(_)
Sum(q) == IF q = <<>> THEN 0 ELSE Head(q) + Sum(Tail(q))

MedianTempUpper(temperatures) ==
    LET n == Len(temperatures)
        o == Sorted(temperatures)
    IN  IF n = 0 THEN Null ELSE Val(o[n \div 2 + 1])

\* round(statistics.median(temperatures), 1), in tenths
MedianTemp(temperatures) ==
    LET n == Len(temperatures)
        o == Sorted(temperatures)
    IN  IF n = 0 THEN Null
        ELSE IF n % 2 = 1 THEN Val(o[(n + 1) \div 2])
        ELSE Val(RoundDiv(o[n \div 2] + o[n \div 2 + 1], 2))

AverageHumidityNonZero(humidities) ==
    LET nz == SelectSeq(humidities, LAMBDA h : h # 0)
    IN  IF nz = <<>> THEN Null
        ELSE Val(RoundDiv(Sum(nz) * 10, Len(nz)))

\* round(sum(humidities) / len(humidities), 1), in tenths
AverageHumidity(humidities) ==
    IF humidities = <<>> THEN Null
    ELSE Val(RoundDiv(Sum(humidities) * 10, Len(humidities)))

ModesAny(descriptions) == RangeOf(descriptions)

\* max(set(descriptions), key=descriptions.count): the descriptions of
\* maximal count; which of them max returns depends on the iteration
\* order of the set
Modes(descriptions) ==
    {d \in RangeOf(descriptions) :
        \A e \in RangeOf(descriptions) : Count(descriptions, e) <= Count(descriptions, d)}

\* _build_response with conditions the element max picked and timestamp t
BuildResponse(location, weather_data, all_sources, conditions, t) ==
    [location |-> location,
     temperature |-> MedianTemp(NonNull(weather_data, "temperature")),
     humidity |-> AverageHumidity(NonNull(weather_data, "humidity")),
     conditions |-> conditions,
     sources |-> all_sources,
     timestamp |-> t]

\* the conditions _build_response can compute
ConditionsOf(weather_data) ==
    IF NonNull(weather_data, "description") = <<>> THEN {"Weather data unavailable"}
    ELSE Modes(NonNull(weather_data, "description"))

NoResponse == [location |-> <<>>, temperature |-> Null, humidity |-> Null,
               conditions |-> "", sources |-> <<>>, timestamp |-> 0]

\* get_aggregated_weather
\*   pc      "idle" | "fetching" (in asyncio.gather) | "done"
\*   end     how it ended: "response" or the exception raised
\*   hit, keys_checked   history: the cache answered; validate_api_keys ran
IdleReq == [pc |-> "idle", location |-> <<>>, is_coords |-> FALSE,
            end |-> "", response |-> NoResponse,
            hit |-> FALSE, keys_checked |-> FALSE]

\* a fetch_weather coroutine
\*   pc     "idle" | "ready" (scheduled, not yet run) | "running" | "done"
\*   stage  "geocode" while OpenMeteo waits for the geocoding request
\*   geo    history: the upstream's answer that ended the geocoding request
NoOutcome == [kind |-> "none", code |-> 0, body |-> "none"]
IdleTask == [pc |-> "idle", stage |-> "", result |-> NoResult, geo |-> NoOutcome]

(***************************************************************************)
(* SpecHttp: make_api_request called directly, two activations at a time,  *)
(* with the arguments of the call sites of the adapters, on buckets that   *)
(* earlier calls may have left at any level.                               *)
(***************************************************************************)
\* the outcomes that differ for make_api_request itself
HttpOutcomes == {o \in Outcomes : o.body \in {"none", "good", "unparseable"}}

\* timeout_key and provider_name of the two activations: the weather request
\* of OpenWeatherProvider and the geocoding request of OpenMeteoProvider,
\* which share the bucket "openweather"
HttpSite(s) ==
    CASE s = "OpenWeatherMap" -> <<"openweather", "OpenWeatherMap">>
      [] s = "OpenMeteo"      -> <<"openweather", "Geocoding">>
      [] OTHER                -> <<"weatherapi", "WeatherAPI">>

HttpSlots == {"OpenWeatherMap", "OpenMeteo"}

\* a bucket that earlier calls left at level n
UsedBucket(k, n) == [NewBucket(k, 0) EXCEPT !.tokens = n]

InitHttp ==
    /\ now = 0
    /\ \E b \in {NoBucket} \cup
                {UsedBucket("openweather", n) :
                    n \in 0..(RATE_LIMITS("openweather").tokens * TokenUnit)} :
         buckets = [k \in Keys |-> IF k = "openweather" THEN b ELSE NoBucket]
    /\ calls = [s \in Slots |->
                  IF s \in HttpSlots THEN NewCall(HttpSite(s)[1], HttpSite(s)[2])
                  ELSE NoCall]
    /\ api_keys = [openweather |-> TRUE, weatherapi |-> TRUE]
    /\ cache = EmptyCache
    /\ req = IdleReq
    /\ tasks = [s \in Slots |-> IdleTask]
    /\ started = 0
    /\ ops = <<>>
    /\ probe = NoProbe
    /\ client = Started

NextHttp ==
    \/ \E s \in Slots : Enter(s)
    \/ \E s \in Slots : WakeToken(s)
    \/ \E s \in Slots, o \in HttpOutcomes : Response(s, o)
    \/ \E s \in Slots : Retry(s)
    \/ Tick

SpecHttp == InitHttp /\ [][NextHttp]_vars

(***************************************************************************)
(* make_api_request called once for OpenWeatherMap and once for            *)
(* WeatherAPI, each on its own bucket.                                     *)
(***************************************************************************)
InitOwnBuckets ==
    /\ now = 0
    /\ \E b \in {NoBucket, UsedBucket("openweather", 0)} :
         buckets = [k \in Keys |-> IF k = "openweather" THEN b ELSE NoBucket]
    /\ calls = [s \in Slots |->
                  CASE s = "OpenWeatherMap" -> NewCall("openweather", "OpenWeatherMap")
                    [] s = "WeatherAPI"     -> NewCall("weatherapi", "WeatherAPI")
                    [] OTHER                -> NoCall]
    /\ api_keys = [openweather |-> TRUE, weatherapi |-> TRUE]
    /\ cache = EmptyCache
    /\ req = IdleReq
    /\ tasks = [s \in Slots |-> IdleTask]
    /\ started = 0
    /\ ops = <<>>
    /\ probe = NoProbe
    /\ client = Started

SpecOwnBuckets == InitOwnBuckets /\ [][NextHttp]_vars

\* the requests the service receives
MaxRequests == 2

\* the location strings callers send: a city, the same city in another
\* case and with a leading blank, a coordinate pair, an invalid input
Locations == {<<"S", "g">>, <<" ", "s", "g">>, <<"1", ".", "5", ",", "2">>, <<"7">>}

EntryLookupFirst(location, c, k, t) ==
    LET got == CacheGet(c, location, t)
        r0 == [IdleReq EXCEPT !.location = location]
    IN  IF got.found THEN
            [req |-> [r0 EXCEPT !.pc = "done", !.end = "response",
                                !.response = got.value, !.hit = TRUE],
             cache |-> got.cache]
        ELSE IF validate_input_format(location) # "" THEN
            [req |-> [r0 EXCEPT !.pc = "done", !.end = "ValidationError"],
             cache |-> got.cache]
        ELSE IF validate_api_keys(k) # "" THEN
            [req |-> [r0 EXCEPT !.pc = "done", !.end = "ConfigurationError",
                                !.keys_checked = TRUE],
             cache |-> got.cache]
        ELSE
            [req |-> [r0 EXCEPT !.pc = "fetching", !.keys_checked = TRUE,
                                !.is_coords = is_coordinates(location)],
             cache |-> got.cache]

\* get_aggregated_weather from its entry to asyncio.gather, or to its exit
\* if it gets that far: for the stripped location, cache c, keys k, time t
Entry(location, c, k, t) ==
    LET got == CacheGet(c, location, t)
        r0 == [IdleReq EXCEPT !.location = location]
    IN  IF validate_input_format(location) # "" THEN
            [req |-> [r0 EXCEPT !.pc = "done", !.end = "ValidationError"],
             cache |-> c]
        ELSE IF got.found THEN
            [req |-> [r0 EXCEPT !.pc = "done", !.end = "response",
                                !.response = got.value, !.hit = TRUE],
             cache |-> got.cache]
        ELSE IF validate_api_keys(k) # "" THEN
            [req |-> [r0 EXCEPT !.pc = "done", !.end = "ConfigurationError",
                                !.keys_checked = TRUE],
             cache |-> got.cache]
        ELSE
            [req |-> [r0 EXCEPT !.pc = "fetching", !.keys_checked = TRUE,
                                !.is_coords = is_coordinates(location)],
             cache |-> got.cache]

\* a request with location string raw arrives
StartRequest(raw) ==
    LET e == Entry(Strip(raw), cache, api_keys, now)
    IN  /\ req.pc = "idle"
        /\ started < MaxRequests
        /\ started' = started + 1
        /\ req' = e.req
        /\ cache' = e.cache
        /\ tasks' = [p \in Slots |->
                        IF e.req.pc = "fetching"
                        THEN [IdleTask EXCEPT !.pc = "ready"] ELSE IdleTask]
        /\ client' = IF e.req.pc = "fetching" THEN get_global_session(client)
                     ELSE client
        /\ UNCHANGED <<now, httpVars, api_keys, ops, probe>>

\* does OpenMeteoProvider geocode first
NeedsGeocoding(p, is_coords) == p = "OpenMeteo" /\ ~is_coords

TaskStartGeocodeOwnKey(p) ==
    /\ req.pc = "fetching"
    /\ tasks[p].pc = "ready"
    /\ IF NeedsGeocoding(p, req.is_coords)
       THEN /\ TryToken(p, NewCall("openmeteo", "Geocoding"))
            /\ tasks' = [tasks EXCEPT ![p] = [@ EXCEPT !.pc = "running", !.stage = "geocode"]]
       ELSE /\ TryToken(p, NewCall(TimeoutKey(p), p))
            /\ tasks' = [tasks EXCEPT ![p] = [@ EXCEPT !.pc = "running", !.stage = "weather"]]
    /\ UNCHANGED <<now, api_keys, client, cache, req, started, ops, probe>>

\* fetch_weather of provider p runs up to its first suspension, inside
\* make_api_request
TaskStart(p) ==
    /\ req.pc = "fetching"
    /\ tasks[p].pc = "ready"
    /\ IF NeedsGeocoding(p, req.is_coords)
       THEN /\ TryToken(p, NewCall("openweather", "Geocoding"))
            /\ tasks' = [tasks EXCEPT ![p] = [@ EXCEPT !.pc = "running", !.stage = "geocode"]]
       ELSE /\ TryToken(p, NewCall(TimeoutKey(p), p))
            /\ tasks' = [tasks EXCEPT ![p] = [@ EXCEPT !.pc = "running", !.stage = "weather"]]
    /\ UNCHANGED <<now, api_keys, client, cache, req, started, ops, probe>>

\* the result of fetch_weather of provider p once its weather request
\* handed back ret
FetchResult(p, ret) ==
    IF p = "OpenMeteo" THEN OpenMeteoAfterRequest(ret) ELSE BaseAfterRequest(p, ret)

\* the GET of provider p's current request ends in outcome o, and
\* fetch_weather runs on to its next suspension or to its end
TaskResponse(p, o) ==
    LET c == calls[p]
        n == Responded(c, o, buckets[c.key])
    IN  /\ tasks[p].pc = "running"
        /\ c.pc = "in_flight"
        /\ IF n.call.pc # "done" THEN
                /\ calls' = [calls EXCEPT ![p] = n.call]
                /\ buckets' = [buckets EXCEPT ![c.key] = n.bucket]
                /\ UNCHANGED tasks
           ELSE IF tasks[p].stage = "geocode" /\ Geocoded(n.call.ret) THEN
                /\ TryToken(p, NewCall(TimeoutKey(p), p))
                /\ tasks' = [tasks EXCEPT ![p] = [@ EXCEPT !.stage = "weather", !.geo = o]]
           ELSE /\ calls' = [calls EXCEPT ![p] = NoCall]
                /\ buckets' = [buckets EXCEPT ![c.key] = n.bucket]
                /\ tasks' = [tasks EXCEPT ![p] =
                                [pc |-> "done", stage |-> "",
                                 result |-> IF tasks[p].stage = "geocode" THEN ResultNone
                                            ELSE FetchResult(p, n.call.ret),
                                 geo |-> IF tasks[p].stage = "geocode" THEN o
                                         ELSE tasks[p].geo]]
        /\ UNCHANGED <<now, api_keys, client, cache, req, started, ops, probe>>

GatherDoneOrRaised(ts) ==
    \/ \A p \in Slots : ts[p].pc = "done"
    \/ \E p \in Slots : ts[p].result.kind = "exception"

\* asyncio.gather(*tasks, return_exceptions=True) is complete
GatherDone(ts) == \A p \in Slots : ts[p].pc = "done"

\* the results list of asyncio.gather
Results(ts) == [i \in 1..Len(Providers) |-> ts[Providers[i]].result]

JoinStoreFailure ==
    LET results == Results(tasks)
        weather_data == WeatherData(results)
    IN  /\ req.pc = "fetching"
        /\ GatherDone(tasks)
        /\ IF weather_data = <<>>
           THEN /\ req' = [req EXCEPT !.pc = "done", !.end = "ProviderError"]
                /\ cache' = CacheSet(cache, req.location, NoResponse, now)
           ELSE \E conditions \in ConditionsOf(weather_data) :
                    LET response == BuildResponse(req.location, weather_data,
                                                  AllSources(results), conditions, now)
                    IN  /\ req' = [req EXCEPT !.pc = "done", !.end = "response",
                                              !.response = response]
                        /\ cache' = CacheSet(cache, req.location, response, now)
        /\ UNCHANGED <<now, httpVars, api_keys, client, tasks, started, ops, probe>>

\* get_aggregated_weather after asyncio.gather: _process_results, then
\* ProviderError or _build_response, weather_cache.set and return
Join ==
    LET results == Results(tasks)
        weather_data == WeatherData(results)
    IN  /\ req.pc = "fetching"
        /\ GatherDone(tasks)
        /\ IF weather_data = <<>>
           THEN /\ req' = [req EXCEPT !.pc = "done", !.end = "ProviderError"]
                /\ UNCHANGED cache
           ELSE \E conditions \in ConditionsOf(weather_data) :
                    LET response == BuildResponse(req.location, weather_data,
                                                  AllSources(results), conditions, now)
                    IN  /\ req' = [req EXCEPT !.pc = "done", !.end = "response",
                                              !.response = response]
                        /\ cache' = CacheSet(cache, req.location, response, now)
        /\ UNCHANGED <<now, httpVars, api_keys, client, tasks, started, ops, probe>>

\* the caller has the response or the exception
Finish ==
    /\ req.pc = "done"
    /\ req' = IdleReq
    /\ tasks' = [p \in Slots |-> IdleTask]
    /\ UNCHANGED <<now, httpVars, api_keys, client, cache, started, ops, probe>>

\* what the upstreams answer in Spec
ServiceOutcomes ==
    {o \in Outcomes : \/ o.kind = "timeout"
                      \/ o.kind = "http" /\ o.code \in {200, 404}
                                         /\ o.body # "unparseable"}

Init ==
    /\ now = 0
    /\ buckets = [k \in Keys |-> NoBucket]
    /\ calls = [s \in Slots |-> NoCall]
    /\ api_keys \in [openweather : BOOLEAN, weatherapi : BOOLEAN]
    /\ cache = EmptyCache
    /\ req = IdleReq
    /\ tasks = [s \in Slots |-> IdleTask]
    /\ started = 0
    /\ ops = <<>>
    /\ probe = NoProbe
    /\ client = Started

Next ==
    \/ \E raw \in Locations : StartRequest(raw)
    \/ \E p \in Slots : TaskStart(p)
    \/ \E p \in Slots : Retry(p)
    \/ \E p \in Slots, o \in ServiceOutcomes : TaskResponse(p, o)
    \/ Join
    \/ Finish

Spec == Init /\ [][Next]_vars

(***************************************************************************)
(* SpecCache: a WeatherCache called directly, as the service and the       *)
(* /cache endpoints call it, while time passes.                            *)
(*   ops   one record per call: the operation, its location argument, the  *)
(*         time of the call and what it stored or returned                 *)
(***************************************************************************)
\* the calls made on the cache
MaxCacheOps == 3

\* the location arguments: a city, the same city in another case and with
\* a leading blank, a coordinate pair, the same pair with more digits and a
\* blank after the comma, a pair that rounds to another fourth decimal
CacheInputs ==
    {<<"S", "g">>,
     <<" ", "s", "G">>,
     <<"1", ".", "5", ",", "2">>,
     <<"1", ".", "5", "0", "0", "0", "4", ",", " ", "2", ".", "0">>,
     <<"1", ".", "5", "0", "0", "0", "6", ",", "2">>}

\* weather_cache.get(raw)
WeatherCacheGet(raw) ==
    LET got == CacheGet(cache, raw, now)
    IN  /\ Len(ops) < MaxCacheOps
        /\ cache' = got.cache
        /\ ops' = Append(ops, [op |-> "get", raw |-> raw, at |-> now,
                               found |-> got.found,
                               value |-> IF got.found THEN got.value ELSE 0])
        /\ UNCHANGED <<now, httpVars, api_keys, client, req, tasks, started, probe>>

\* weather_cache.set(raw, data): each call stores a value of its own
WeatherCacheSet(raw) ==
    LET data == Len(ops) + 1
    IN  /\ Len(ops) < MaxCacheOps
        /\ cache' = CacheSet(cache, raw, data, now)
        /\ ops' = Append(ops, [op |-> "set", raw |-> raw, at |-> now,
                               found |-> FALSE, value |-> data])
        /\ UNCHANGED <<now, httpVars, api_keys, client, req, tasks, started, probe>>

\* weather_cache.clear()
WeatherCacheClear ==
    /\ Len(ops) < MaxCacheOps
    /\ cache' = CacheClear(cache)
    /\ ops' = Append(ops, [op |-> "clear", raw |-> <<>>, at |-> now,
                           found |-> FALSE, value |-> 0])
    /\ UNCHANGED <<now, httpVars, api_keys, client, req, tasks, started, probe>>

\* time passes between two calls, until what the first call stored has
\* expired
Elapse ==
    /\ ops # <<>>
    /\ Len(ops) < MaxCacheOps
    /\ now < CacheTtl
    /\ now' = now + 1
    /\ UNCHANGED <<httpVars, svcVars>>

InitCache ==
    /\ now = 0
    /\ buckets = [k \in Keys |-> NoBucket]
    /\ calls = [s \in Slots |-> NoCall]
    /\ api_keys = [openweather |-> TRUE, weatherapi |-> TRUE]
    /\ cache = EmptyCache
    /\ req = IdleReq
    /\ tasks = [s \in Slots |-> IdleTask]
    /\ started = 0
    /\ ops = <<>>
    /\ probe = NoProbe
    /\ client = Started

NextCache ==
    \/ \E raw \in CacheInputs : WeatherCacheGet(raw)
    \/ \E raw \in CacheInputs : WeatherCacheSet(raw)
    \/ WeatherCacheClear
    \/ Elapse

SpecCache == InitCache /\ [][NextCache]_vars

(***************************************************************************)
(* A WeatherCache(max_size=SmallMaxSize) and one location more than it     *)
(* holds.                                                                  *)
(***************************************************************************)
SmallMaxSize == 2
MaxSmallOps == 4

SmallInputs == {<<c>> : c \in {LowerCase[i] : i \in 1..(SmallMaxSize + 1)}}

\* cache.get(raw)
SmallCacheGet(raw) ==
    LET got == CacheGet(cache, raw, now)
    IN  /\ Len(ops) < MaxSmallOps
        /\ cache' = got.cache
        /\ ops' = Append(ops, [op |-> "get", raw |-> raw, at |-> now,
                               found |-> got.found,
                               value |-> IF got.found THEN got.value ELSE 0])
        /\ UNCHANGED <<now, httpVars, api_keys, client, req, tasks, started, probe>>

\* cache.set(raw, data): each call stores a value of its own
SmallCacheSet(raw) ==
    LET data == Len(ops) + 1
    IN  /\ Len(ops) < MaxSmallOps
        /\ cache' = CacheSetAt(cache, raw, data, now, SmallMaxSize)
        /\ ops' = Append(ops, [op |-> "set", raw |-> raw, at |-> now,
                               found |-> FALSE, value |-> data])
        /\ UNCHANGED <<now, httpVars, api_keys, client, req, tasks, started, probe>>

\* time passes between two calls
SmallElapse ==
    /\ ops # <<>>
    /\ Len(ops) < MaxSmallOps
    /\ now < CacheTtl
    /\ now' = now + 1
    /\ UNCHANGED <<httpVars, svcVars>>

NextSmallCache ==
    \/ \E raw \in SmallInputs : SmallCacheGet(raw)
    \/ \E raw \in SmallInputs : SmallCacheSet(raw)
    \/ SmallElapse

SpecSmallCache == InitCache /\ [][NextSmallCache]_vars

(***************************************************************************)
(* SpecBucket: more activations of make_api_request than the bucket        *)
(* "openweather" has tokens; the bucket is new and full; every activation  *)
(* stays in its first GET, so that the bucket is only drawn from.          *)
(***************************************************************************)
Callers == 1..(MaxTokens + 2)

InitBucket ==
    /\ now = 0
    /\ buckets = [k \in Keys |->
                    IF k = "openweather" THEN NewBucket(k, 0) ELSE NoBucket]
    /\ calls = [w \in Callers |-> NewCall("openweather", "OpenWeatherMap")]
    /\ api_keys = [openweather |-> TRUE, weatherapi |-> TRUE]
    /\ cache = EmptyCache
    /\ req = IdleReq
    /\ tasks = [s \in Slots |-> IdleTask]
    /\ started = 0
    /\ ops = <<>>
    /\ probe = NoProbe
    /\ client = Started

NextBucket ==
    \/ \E w \in Callers : Enter(w)
    \/ \E w \in Callers : WakeToken(w)
    \/ Tick

SpecBucket == InitBucket /\ [][NextBucket]_vars

(***************************************************************************)
(* The same callers with a clock that never stops.  Times are told         *)
(* relative to the present: when a tick passes, now stays and last_refill  *)
(* and the wake-up times move one tick into the past.  A last_refill so    *)
(* far back that _refill fills the bucket anyway, and a wake-up time that  *)
(* is due, stay where they are.                                            *)
(***************************************************************************)

\* the ticks after which _refill fills an empty bucket
FullAfter(b) == (b.max_tokens + b.refill_rate - 1) \div b.refill_rate

TimePassesUnseen ==
    /\ calls' = [w \in DOMAIN calls |->
                    IF calls[w].pc = "token_sleep" /\ calls[w].wake > now
                    THEN [calls[w] EXCEPT !.wake = @ - 1] ELSE calls[w]]
    /\ UNCHANGED <<now, buckets, svcVars>>

\* time.time() is one tick later
TimePasses ==
    /\ buckets' = [k \in Keys |->
                    IF buckets[k].exists
                       /\ buckets[k].last_refill > now - FullAfter(buckets[k])
                    THEN [buckets[k] EXCEPT !.last_refill = @ - 1] ELSE buckets[k]]
    /\ calls' = [w \in DOMAIN calls |->
                    IF calls[w].pc = "token_sleep" /\ calls[w].wake > now
                    THEN [calls[w] EXCEPT !.wake = @ - 1] ELSE calls[w]]
    /\ UNCHANGED <<now, svcVars>>

NextBucketLive ==
    \/ \E w \in Callers : Enter(w)
    \/ \E w \in Callers : WakeToken(w)
    \/ TimePasses

\* the event loop runs every coroutine that is ready, and time passes
SpecBucketLive ==
    /\ InitBucket
    /\ [][NextBucketLive]_vars
    /\ WF_vars(TimePasses)
    /\ \A w \in Callers : WF_vars(Enter(w)) /\ WF_vars(WakeToken(w))

(***************************************************************************)
(* SpecUnit: functions called directly, as their unit tests call them, on  *)
(* arguments drawn from the sets below.                                    *)
(***************************************************************************)
\* what stands on either side of the comma of a coordinate string
NumberTokens ==
    {<<"0">>, <<"9", "0">>, <<"-", "9", "0">>, <<"9", "1">>, <<"-", "9", "1">>,
     <<"1", "8", "0">>, <<"-", "1", "8", "0">>, <<"1", "8", "1">>,
     <<"-", "1", "8", "1">>, <<"9", "0", ".", "0", "1">>, <<"1", ".", "5">>,
     <<" ", "2">>, <<"+", "1">>, <<"1", ".">>, <<"x">>, <<>>}

\* location strings with one comma
OneComma == {lat \o <<",">> \o lon : lat \in NumberTokens, lon \in NumberTokens}

\* n times the character c
Repeat(c, n) == [i \in 1..n |-> c]

\* location strings without a comma: all strings of up to three characters
\* over a small alphabet, and strings around the maximal length
NameAlphabet == {"a", "Z", "7", " "}
NoComma ==
    UNION {[1..n -> NameAlphabet] : n \in 0..3}
    \cup {Repeat("a", n) : n \in {MAX_CITY_NAME_LENGTH - 1, MAX_CITY_NAME_LENGTH,
                                   MAX_CITY_NAME_LENGTH + 1}}
    \cup {<<" ">> \o Repeat("a", MAX_CITY_NAME_LENGTH) \o <<" ">>,
          Repeat("7", MAX_CITY_NAME_LENGTH)}

\* location strings with two or three commas
Fields == {<<>>, <<"0">>, <<"a">>, <<" ">>}
ManyCommas ==
    {a \o <<",">> \o b \o <<",">> \o c : a \in Fields, b \in Fields, c \in Fields}
    \cup {a \o <<",">> \o b \o <<",">> \o c \o <<",">> \o d :
            a \in Fields, b \in Fields, c \in Fields, d \in Fields}

\* the data points handed to _build_response
MaxPoints == 4

\* a successful result with the given readings
DataPoint(t, h, d) ==
    [kind |-> "data", temperature |-> t, humidity |-> h, description |-> d,
     source |-> [provider |-> "OpenWeatherMap", status |-> "success"]]

\* the results of the three providers, one with a humidity of 0 and a
\* temperature half a tenth away from the mean with each of the others, one
\* with no reading at all
DataPoints ==
    {process_successful_response(p) : p \in Slots}
    \cup {DataPoint(Val(305), Val(0), Val("Overcast")), DataPoint(Null, Null, Null)}

\* what a mocked make_api_request hands to fetch_weather
MockReturns ==
    {Raised}
    \cup {Success(n, body) : n \in 1..(MAX_RETRIES + 1),
                             body \in Bodies \ {"unparseable"}}
    \cup {Failure(n, ErrorText(n, e)) :
            n \in 1..(MAX_RETRIES + 1),
            e \in {Err("Client error", 404), Err("Request timeout", 0),
                   Err("Rate limited", 429)}}

\* the attempt numbers handed to calculate_retry_delay
MaxAttempt == 5

\* validate_input_format(raw): output is the message of the ValidationError
\* raised, "" if none
Validate(raw) ==
    /\ probe = NoProbe
    /\ probe' = [fn |-> "validate_input_format", input |-> raw,
                 output |-> validate_input_format(raw)]
    /\ UNCHANGED <<now, httpVars, api_keys, client, cache, req, tasks, started, ops>>

\* _build_response("Sg", weather_data, all_sources)
Build(weather_data) ==
    /\ probe = NoProbe
    /\ \E conditions \in ConditionsOf(weather_data) :
          probe' = [fn |-> "_build_response", input |-> weather_data,
                    output |-> BuildResponse(<<"S", "g">>, weather_data,
                                             AllSources(weather_data), conditions, now)]
    /\ UNCHANGED <<now, httpVars, api_keys, client, cache, req, tasks, started, ops>>

\* _build_response once more on the same data points, in the same process or
\* (restarted) in one started anew: the order in which a set of strings is
\* iterated follows the strings' hashes, which are salted per process, so a
\* new process may meet the tied descriptions in another order
Rerun(restarted) ==
    /\ probe.fn = "_build_response"
    /\ \E conditions \in (IF restarted THEN ConditionsOf(probe.input)
                           ELSE {probe.output.conditions}) :
          probe' = [fn |-> "_build_response, again", input |-> probe.input,
                    output |-> probe.output, restarted |-> restarted,
                    again |-> BuildResponse(<<"S", "g">>, probe.input,
                                            AllSources(probe.input), conditions, now)]
    /\ UNCHANGED <<now, httpVars, api_keys, client, cache, req, tasks, started, ops>>

\* fetch_weather of provider p with make_api_request mocked to hand back ret
Fetch(p, ret) ==
    /\ probe = NoProbe
    /\ probe' = [fn |-> "fetch_weather", input |-> [provider |-> p, ret |-> ret],
                 output |-> FetchResult(p, ret)]
    /\ UNCHANGED <<now, httpVars, api_keys, client, cache, req, tasks, started, ops>>

\* calculate_retry_delay(attempt), random.random() * 2 - 1 being k / JitterSteps
Delay(attempt, k) ==
    /\ probe = NoProbe
    /\ probe' = [fn |-> "calculate_retry_delay",
                 input |-> [attempt |-> attempt, k |-> k],
                 output |-> calculate_retry_delay(attempt, k)]
    /\ UNCHANGED <<now, httpVars, api_keys, client, cache, req, tasks, started, ops>>

InitUnit ==
    /\ now = 0
    /\ buckets = [k \in Keys |-> NoBucket]
    /\ calls = [s \in Slots |-> NoCall]
    /\ api_keys = [openweather |-> TRUE, weatherapi |-> TRUE]
    /\ cache = EmptyCache
    /\ req = IdleReq
    /\ tasks = [s \in Slots |-> IdleTask]
    /\ started = 0
    /\ ops = <<>>
    /\ probe = NoProbe
    /\ client = Started

NextUnit ==
    \/ \E raw \in OneComma \cup NoComma \cup ManyCommas : Validate(raw)
    \/ \E n \in 0..MaxPoints : \E weather_data \in [1..n -> DataPoints] :
          Build(weather_data)
    \/ \E restarted \in BOOLEAN : Rerun(restarted)
    \/ \E p \in Slots, ret \in MockReturns : Fetch(p, ret)
    \/ \E attempt \in 0..MaxAttempt, k \in Jitters : Delay(attempt, k)

SpecUnit == InitUnit /\ [][NextUnit]_vars

(***************************************************************************)
(* get_global_session and close_global_session called in any order on one *)
(* event loop.  get_global_session has no await that suspends.             *)
(* close_global_session awaits ClientSession.close(), which marks the      *)
(* session closed and then may or may not suspend, depending on the        *)
(* connections it has to wait for: both are modelled.                      *)
(***************************************************************************)
Closers == {1, 2}

\* a coroutine calls get_global_session
GetSession ==
    /\ Len(client.closed) < MaxSessions \/ ~NoOpenSession(client)
    /\ client' = get_global_session(client)
    /\ UNCHANGED <<now, httpVars, api_keys, cache, req, tasks, started, ops, probe>>

\* close_global_session, activation c, up to the suspension in
\* await _global_session.close()
CloseBegins(c) ==
    /\ c \notin client.closing
    /\ ~NoOpenSession(client)
    /\ client' = [client EXCEPT !.closed[client.global] = TRUE,
                                !.closing = @ \cup {c}]
    /\ UNCHANGED <<now, httpVars, api_keys, cache, req, tasks, started, ops, probe>>

\* close_global_session, activation c, resumes: _global_session = None
CloseEnds(c) ==
    /\ c \in client.closing
    /\ client' = [client EXCEPT !.global = 0, !.closing = @ \ {c}]
    /\ UNCHANGED <<now, httpVars, api_keys, cache, req, tasks, started, ops, probe>>

\* close_global_session, activation c, when the await does not suspend
CloseAtOnce(c) ==
    /\ c \notin client.closing
    /\ ~NoOpenSession(client)
    /\ client' = [client EXCEPT !.closed[client.global] = TRUE, !.global = 0]
    /\ UNCHANGED <<now, httpVars, api_keys, cache, req, tasks, started, ops, probe>>

InitSession ==
    /\ now = 0
    /\ buckets = [k \in Keys |-> NoBucket]
    /\ calls = [s \in Slots |-> NoCall]
    /\ api_keys = [openweather |-> TRUE, weatherapi |-> TRUE]
    /\ cache = EmptyCache
    /\ req = IdleReq
    /\ tasks = [s \in Slots |-> IdleTask]
    /\ started = 0
    /\ ops = <<>>
    /\ probe = NoProbe
    /\ client = NoClient

NextSession ==
    \/ GetSession
    \/ \E c \in Closers : CloseBegins(c)
    \/ \E c \in Closers : CloseEnds(c)
    \/ \E c \in Closers : CloseAtOnce(c)

SpecSession == InitSession /\ [][NextSession]_vars

(***************************************************************************)
(* Two activations of get_aggregated_weather on one event loop, sharing    *)
(* weather_cache.  req and tasks are indexed by activation; a fetch_weather *)
(* coroutine is one step that ends with what make_api_request handed it;   *)
(* ops logs which activation called weather_cache.set, in order.           *)
(***************************************************************************)
Activations == {1, 2}

\* two spellings of one location
SameLocations == {<<"S", "g">>, <<" ", "s", "G">>}

\* what make_api_request hands back to the fetch_weather coroutines
TaskReturns ==
    {Success(1, "good"), Failure(1, ErrorText(1, Err("Client error", 404)))}

\* activation r of get_aggregated_weather runs from its entry to
\* asyncio.gather, or to its exit if it gets that far
RequestArrives(r, raw) ==
    LET e == Entry(Strip(raw), cache, api_keys, now)
    IN  /\ req[r].pc = "idle"
        /\ req' = [req EXCEPT ![r] = e.req]
        /\ cache' = e.cache
        /\ tasks' = [tasks EXCEPT ![r] =
                        [p \in Slots |->
                            IF e.req.pc = "fetching"
                            THEN [IdleTask EXCEPT !.pc = "ready"] ELSE IdleTask]]
        /\ client' = IF e.req.pc = "fetching" THEN get_global_session(client)
                     ELSE client
        /\ UNCHANGED <<now, httpVars, api_keys, started, ops, probe>>

\* fetch_weather of provider p, created by activation r, runs to its end
ProviderReturns(r, p, ret) ==
    /\ req[r].pc = "fetching"
    /\ tasks[r][p].pc = "ready"
    /\ tasks' = [tasks EXCEPT ![r][p] =
                    [@ EXCEPT !.pc = "done", !.result = FetchResult(p, ret)]]
    /\ UNCHANGED <<now, httpVars, api_keys, client, cache, req, started, ops, probe>>

RequestJoinsKeepFirst(r) ==
    LET results == Results(tasks[r])
        weather_data == WeatherData(results)
    IN  /\ req[r].pc = "fetching"
        /\ GatherDone(tasks[r])
        /\ IF weather_data = <<>>
           THEN /\ req' = [req EXCEPT ![r] = [@ EXCEPT !.pc = "done",
                                                       !.end = "ProviderError"]]
                /\ UNCHANGED <<cache, ops>>
           ELSE \E conditions \in ConditionsOf(weather_data) :
                    LET response == BuildResponse(req[r].location, weather_data,
                                                  AllSources(results), conditions, now)
                    IN  /\ req' = [req EXCEPT ![r] = [@ EXCEPT !.pc = "done",
                                                               !.end = "response",
                                                               !.response = response]]
                        /\ cache' = IF CacheGet(cache, req[r].location, now).found
                                    THEN cache
                                    ELSE CacheSet(cache, req[r].location, response, now)
                        /\ ops' = Append(ops, r)
        /\ UNCHANGED <<now, httpVars, api_keys, client, tasks, started, probe>>

\* activation r after asyncio.gather: _process_results, then ProviderError
\* or _build_response, weather_cache.set and return
RequestJoins(r) ==
    LET results == Results(tasks[r])
        weather_data == WeatherData(results)
    IN  /\ req[r].pc = "fetching"
        /\ GatherDone(tasks[r])
        /\ IF weather_data = <<>>
           THEN /\ req' = [req EXCEPT ![r] = [@ EXCEPT !.pc = "done",
                                                       !.end = "ProviderError"]]
                /\ UNCHANGED <<cache, ops>>
           ELSE \E conditions \in ConditionsOf(weather_data) :
                    LET response == BuildResponse(req[r].location, weather_data,
                                                  AllSources(results), conditions, now)
                    IN  /\ req' = [req EXCEPT ![r] = [@ EXCEPT !.pc = "done",
                                                               !.end = "response",
                                                               !.response = response]]
                        /\ cache' = CacheSet(cache, req[r].location, response, now)
                        /\ ops' = Append(ops, r)
        /\ UNCHANGED <<now, httpVars, api_keys, client, tasks, started, probe>>

InitConcurrent ==
    /\ now = 0
    /\ buckets = [k \in Keys |-> NoBucket]
    /\ calls = [s \in Slots |-> NoCall]
    /\ api_keys = [openweather |-> TRUE, weatherapi |-> TRUE]
    /\ cache = EmptyCache
    /\ req = [r \in Activations |-> IdleReq]
    /\ tasks = [r \in Activations |-> [s \in Slots |-> IdleTask]]
    /\ started = 0
    /\ ops = <<>>
    /\ probe = NoProbe
    /\ client = Started

NextConcurrent ==
    \/ \E r \in Activations, raw \in SameLocations : RequestArrives(r, raw)
    \/ \E r \in Activations, p \in Slots, ret \in TaskReturns : ProviderReturns(r, p, ret)
    \/ \E r \in Activations : RequestJoins(r)

SpecConcurrent == InitConcurrent /\ [][NextConcurrent]_vars

(***************************************************************************)
(* Properties                                                              *)
(***************************************************************************)
\* get_aggregated_weather went through asyncio.gather and is at its exit
Aggregated == req.pc = "done" /\ ~req.hit /\ req.end \in {"response", "ProviderError"}

\* the providers whose result carries source status "success"
Succeeded ==
    {p \in Slots : /\ tasks[p].result.kind \in {"data", "failure"}
                   /\ tasks[p].result.source.status = "success"}

\* the non-null readings the upstreams of the providers in P reported
Readings(P, field) == {Upstream(p)[field].v : p \in {q \in P : ~Upstream(q)[field].null}}

\* x is null if there are no readings, and within their range otherwise
\* (scale: x is counted in 1/scale of the unit of the readings)
Within(x, R, scale) ==
    IF R = {} THEN x.null
    ELSE /\ ~x.null
         /\ SetMin(R) * scale <= x.v
         /\ x.v <= SetMax(R) * scale

\* C1: on a cache miss with both keys set, get_aggregated_weather returns a
\* response exactly when at least one provider result has source status
\* "success" and raises ProviderError when none has; the temperature,
\* humidity and conditions of the response come from the successful
\* providers only (with one successful provider they are its values).
C1_ResponseIffSuccess ==
    Aggregated =>
        /\ (req.end = "response") <=> (Succeeded # {})
        /\ (req.end = "ProviderError") <=> (Succeeded = {})
        /\ req.end = "response" =>
            /\ Within(req.response.temperature, Readings(Succeeded, "temperature"), 1)
            /\ Within(req.response.humidity, Readings(Succeeded, "humidity"), 10)
            /\ req.response.conditions \in Readings(Succeeded, "description")

C1_Witness ==
    /\ Aggregated
    /\ req.end = "response"
    /\ Succeeded = {"OpenMeteo"}
    /\ tasks["OpenWeatherMap"].result.kind = "exception"
    /\ tasks["WeatherAPI"].result.kind = "failure"
    /\ req.response.temperature = Upstream("OpenMeteo").temperature
    /\ req.response.humidity.null

\* the source record _process_results must produce for a gathered result
SourceFor(i, result) ==
    IF result.kind \in {"data", "failure"} THEN result.source
    ELSE [provider |-> Providers[i], status |-> "failure with exception"]

C2_Barrier ==
    /\ req.pc = "fetching" => \A p \in Slots : tasks[p].pc # "idle"
    /\ Aggregated => \A p \in Slots : tasks[p].pc = "done"
    /\ Aggregated /\ req.end = "response" =>
         \A i \in 1..Len(Providers) :
            req.response.sources[i] = SourceFor(i, tasks[Providers[i]].result)

C2_Isolation ==
    \A p \in Slots :
        (tasks[p].pc # "done" /\ tasks'[p].pc = "done"
            /\ tasks'[p].result.kind = "exception")
        => \A q \in Slots \ {p} : tasks'[q] = tasks[q] /\ calls'[q] = calls[q]

\* C2: the three fetches are all started before any is awaited, the results
\* are processed only when all three are complete, and a fetch that raises
\* changes nothing in the other two and shows as the failure source record
\* of its own provider only.
C2_FanOutFanIn == [](C2_Barrier) /\ [][C2_Isolation]_vars

C2_Witness ==
    /\ Aggregated
    /\ req.end = "response"
    /\ tasks["OpenWeatherMap"].result.kind = "exception"
    /\ tasks["WeatherAPI"].result.kind = "data"
    /\ tasks["OpenMeteo"].result.kind = "data"
    /\ req.response.sources[1].status = "failure with exception"
    /\ req.response.sources[2].status = "success"

\* C3: whatever the outcomes of its attempts, make_api_request hands back a
\* result whose status is "success" or a failure; it never raises.
C3_AlwaysReturns ==
    \A s \in Slots :
        /\ calls[s].ret.kind # "raise"
        /\ calls[s].pc = "done" =>
            /\ calls[s].ret.kind = "return"
            /\ calls[s].ret.status \in {"success", "failure"}

C3_Witness ==
    \E s \in Slots :
        /\ calls[s].pc = "done"
        /\ calls[s].last_error.msg = "Unexpected error"
        /\ calls[s].ret.status = "failure"
        /\ calls[s].attempt > 0

\* GETs issued and tokens deducted under bucket key k
GetsUnder(k) == Sum([i \in 1..Len(Providers) |->
                        IF calls[Providers[i]].key = k THEN calls[Providers[i]].gets ELSE 0])
TokensTakenFrom(k) == Sum([i \in 1..Len(Providers) |->
                        IF calls[Providers[i]].key = k
                        THEN calls[Providers[i]].took \div TokenUnit ELSE 0])

\* C4: every attempt takes a token before its GET, so the GETs issued under
\* a key never outnumber the tokens taken from the bucket of that key.
C4_TokenPerGet == \A k \in Keys : GetsUnder(k) <= TokensTakenFrom(k)

\* C5: one call of make_api_request never gives back to the bucket more
\* than it took from it.
C5_NoNetRefund == \A s \in Slots : calls[s].gave <= calls[s].took

\* C6: the level of every bucket stays between 0 and max_tokens under every
\* interleaving of wait_for_token callers, refills and refunds.
C6_TokensInRange ==
    \A k \in Keys :
        buckets[k].exists => 0 <= buckets[k].tokens /\ buckets[k].tokens <= buckets[k].max_tokens

C6_Witness ==
    \E s, u \in Slots :
        /\ s # u
        /\ calls[s].key = calls[u].key
        /\ calls[s].pc = "in_flight" /\ calls[s].took = TokenUnit
        /\ calls[u].pc = "token_sleep"
        /\ buckets[calls[s].key].tokens < TokenUnit

\* C7: make_api_request issues at most max_retries + 1 GETs, returns once
\* the last of them has ended, and reports between 1 and max_retries + 1
\* attempts.
C7_BoundedAttempts ==
    \A s \in Slots :
        /\ calls[s].gets <= MAX_RETRIES + 1
        /\ calls[s].gets = MAX_RETRIES + 1 => calls[s].pc \in {"in_flight", "done"}
        /\ calls[s].pc = "done" =>
            /\ 1 <= calls[s].ret.attempts
            /\ calls[s].ret.attempts <= MAX_RETRIES + 1

C7_Witness ==
    \E s \in Slots :
        /\ calls[s].pc = "done"
        /\ calls[s].gets = MAX_RETRIES + 1
        /\ calls[s].ret.attempts = MAX_RETRIES + 1

\* the errors after which make_api_request must not try again
NoRetryErrors == {"Client error", "Unexpected error"}

\* C8: once an attempt got a 4xx other than 429 or raised an unexpected
\* exception, the call has returned a failure that counts the attempts made
\* so far, and no GET follows.
C8_NoRetry ==
    \A s \in Slots :
        calls[s].last_error.msg \in NoRetryErrors =>
            /\ calls[s].pc = "done"
            /\ calls[s].ret.kind = "return"
            /\ calls[s].ret.status = "failure"
            /\ calls[s].ret.attempts = calls[s].attempt + 1
            /\ calls[s].gets = calls[s].attempt + 1
            /\ calls[s].ret.error.msg = calls[s].last_error.msg

C8_Witness ==
    \E s \in Slots :
        /\ calls[s].pc = "done"
        /\ calls[s].last_error.msg = "Client error"
        /\ calls[s].ret.attempts = 2
        /\ calls[s].ret.attempts < MAX_RETRIES + 1

\* the errors after which make_api_request tries again
RetryErrors == {"Rate limited", "Server error", "Request timeout", "Network error"}

\* the call in slot s is just past an attempt that ended in one of them
PastRetryable(s) ==
    /\ calls[s].last_error.msg \in RetryErrors
    /\ \/ calls[s].pc = "backoff"
       \/ calls[s].pc = "done" /\ calls[s].ret.status = "failure"

\* C9: after an attempt that ended in 429, 5xx, a timeout or a network
\* error another attempt follows exactly when fewer than max_retries + 1
\* were made; otherwise the call returns a failure that carries the error
\* of the last attempt and counts max_retries + 1 attempts.
C9_RetryUntilExhausted ==
    \A s \in Slots :
        PastRetryable(s) =>
            /\ (calls[s].pc = "backoff") <=> (calls[s].gets < MAX_RETRIES + 1)
            /\ calls[s].pc = "done" =>
                /\ calls[s].gets = MAX_RETRIES + 1
                /\ calls[s].ret.attempts = MAX_RETRIES + 1
                /\ calls[s].ret.error = ErrorText(MAX_RETRIES + 1, calls[s].last_error)

C9_Witness ==
    \E s \in Slots :
        /\ PastRetryable(s)
        /\ calls[s].pc = "done"
        /\ calls[s].last_error.msg = "Request timeout"
        /\ calls[s].ret.error.failed_after = MAX_RETRIES + 1

C10_HitState ==
    req.pc = "done" /\ req.hit =>
        /\ req.end = "response"
        /\ ~req.keys_checked
        /\ \E i \in 1..Len(cache.entries) :
              /\ cache.entries[i].key = normalize_key(req.location)
              /\ cache.entries[i].value = req.response
        /\ \A p \in Slots : tasks[p] = IdleTask /\ calls[p] = NoCall

C10_HitStep ==
    (req.pc = "idle" /\ req'.hit) =>
        /\ Contents(cache', now') = Contents(cache, now)
        /\ buckets' = buckets
        /\ calls' = calls
        /\ tasks' = tasks

\* C10: on a cache hit get_aggregated_weather returns the stored envelope
\* as it is stored, without checking the API keys, taking a token, issuing
\* a request or changing what the cache holds.
C10_CacheHit == [](C10_HitState) /\ [][C10_HitStep]_vars

C10_Witness ==
    /\ req.pc = "done"
    /\ req.hit
    /\ req.location # req.response.location
    /\ normalize_key(req.location) = normalize_key(req.response.location)

\* a request arrives in this step
Arrives == req.pc = "idle" /\ req'.pc # "idle"

\* nothing of the fan-out has run for the current request
NothingDispatched ==
    \A p \in Slots : tasks[p].pc = "idle" /\ calls[p] = NoCall

C11_State ==
    req.end = "ValidationError" =>
        /\ req.pc = "done"
        /\ ~req.hit /\ ~req.keys_checked
        /\ req.response = NoResponse
        /\ NothingDispatched

C11_Step ==
    Arrives =>
        /\ (req'.end = "ValidationError") <=> (validate_input_format(req'.location) # "")
        /\ req'.end = "ValidationError" =>
              /\ cache' = cache
              /\ buckets' = buckets
              /\ calls' = calls

\* C11: a location that fails validation ends the request with
\* ValidationError in the step in which it arrives: no cache lookup (the
\* entries and the hit and miss counters are unchanged), no bucket touched,
\* no request issued, no key check.
C11_FailFast == [](C11_State) /\ [][C11_Step]_vars

C11_Witness ==
    /\ req.end = "ValidationError"
    /\ cache.entries # <<>>
    /\ cache.misses = 1
    /\ buckets["openweather"].exists

\* an API key is not configured
KeyMissing == ~api_keys.openweather \/ ~api_keys.weatherapi

\* C12: with a key missing, every request with a valid location misses the
\* cache and ends with ConfigurationError before any fetch_weather is
\* scheduled, Open-Meteo's included: no bucket is created, no request
\* issued, nothing stored in the cache, no source record built.
C12_ConfigurationError ==
    (req.pc # "idle" /\ KeyMissing /\ validate_input_format(req.location) = "") =>
        /\ req.pc = "done"
        /\ req.end = "ConfigurationError"
        /\ ~req.hit
        /\ req.response = NoResponse
        /\ NothingDispatched
        /\ \A k \in Keys : ~buckets[k].exists
        /\ cache.entries = <<>>

C12_Witness ==
    /\ req.end = "ConfigurationError"
    /\ api_keys.openweather /\ ~api_keys.weatherapi
    /\ started = 2
    /\ cache.misses = 2

\* the coordinate a float literal denotes, rounded to 1/10000 of a degree
Rounded4(x) == [neg |-> x.neg, n |-> RoundDiv(x.m * 10000, 10 ^ x.e)]

\* the string is two floats separated by a comma
IsPair(a) ==
    LET t == Strip(a)
    IN  /\ Count(t, ",") = 1
        /\ IsFloatLiteral(Strip(BeforeComma(t)))
        /\ IsFloatLiteral(Strip(AfterComma(t)))

\* two location arguments differ only in surrounding blanks and letter
\* case or, for coordinate pairs, in blanks around the numbers and in what
\* rounding to four decimals discards
SameLocation(a, b) ==
    IF IsPair(a) /\ IsPair(b)
    THEN /\ Rounded4(PyFloat(Strip(BeforeComma(Strip(a)))))
              = Rounded4(PyFloat(Strip(BeforeComma(Strip(b)))))
         /\ Rounded4(PyFloat(Strip(AfterComma(Strip(a)))))
              = Rounded4(PyFloat(Strip(AfterComma(Strip(b)))))
    ELSE /\ ~IsPair(a) /\ ~IsPair(b)
         /\ Lower(Strip(a)) = Lower(Strip(b))

\* the get calls made on the cache, and the calls with a location
Gets == {j \in 1..Len(ops) : ops[j].op = "get"}
Keyed == {j \in 1..Len(ops) : ops[j].op # "clear"}

\* the call just made is a get; it has a location
JustGot == ops # <<>> /\ ops[Len(ops)].op = "get"
JustKeyed == ops # <<>> /\ ops[Len(ops)].op # "clear"

\* the last set before call j for the location of call j, 0 if none
LastSet(j) ==
    LET S == {i \in 1..(j - 1) : /\ ops[i].op = "set"
                                 /\ SameLocation(ops[i].raw, ops[j].raw)}
    IN  IF S = {} THEN 0 ELSE SetMax(S)

\* between calls i and j the cache was not cleared and fewer than max_size
\* calls touched other locations, so that no eviction can have reached what
\* call i stored
Kept(i, j) ==
    /\ \A k \in (i + 1)..(j - 1) : ops[k].op # "clear"
    /\ Cardinality({k \in (i + 1)..(j - 1) :
                        ~SameLocation(ops[k].raw, ops[j].raw)}) < CacheMaxSize

\* C13: every get, when it returns: a get for a location last stored at
\* time T misses at every time t >= T + ttl, and at every time t < T + ttl
\* returns the stored value unless it was cleared or evicted in between; a
\* get for a location never stored misses.
C13_TtlWindow ==
    JustGot =>
        LET j == Len(ops)
            i == LastSet(j)
        IN  IF i = 0 THEN ~ops[j].found
            ELSE /\ ops[j].at >= ops[i].at + CacheTtl => ~ops[j].found
                 /\ (ops[j].at < ops[i].at + CacheTtl /\ Kept(i, j)) =>
                        /\ ops[j].found
                        /\ ops[j].value = ops[i].value

C13_Witness ==
    /\ Len(ops) = 3
    /\ ops[1].op = "set" /\ ops[2].op = "get" /\ ops[3].op = "get"
    /\ ops[2].raw = ops[1].raw /\ ops[3].raw = ops[1].raw
    /\ ops[2].at = ops[1].at + CacheTtl - 1 /\ ops[2].found
    /\ ops[3].at = ops[1].at + CacheTtl /\ ~ops[3].found

\* C14: the cache never holds more than max_size entries.
C14_SizeBound == Len(cache.entries) <= CacheMaxSize

C14_Witness ==
    /\ Len(ops) >= 2
    /\ ops[1].op = "set" /\ ops[2].op = "set"
    /\ ops[1].at = ops[2].at
    /\ ~SameLocation(ops[1].raw, ops[2].raw)
    /\ Len(cache.entries) = CacheMaxSize

C15_State ==
    /\ cache.hits = Cardinality({j \in Gets : ops[j].found})
    /\ cache.misses = Cardinality({j \in Gets : ~ops[j].found})
    /\ cache.hits + cache.misses = Cardinality(Gets)

C15_Step ==
    Len(ops') = Len(ops) + 1 =>
        LET o == ops'[Len(ops')]
        IN  /\ o.op = "get" =>
                \/ cache'.hits = cache.hits + 1 /\ cache'.misses = cache.misses
                \/ cache'.hits = cache.hits /\ cache'.misses = cache.misses + 1
            /\ o.op \in {"set", "clear"} =>
                cache'.hits = cache.hits /\ cache'.misses = cache.misses

\* C15: hits counts the get calls that found a value and misses those that
\* did not, so that hits + misses is the number of get calls; a get adds one
\* to exactly one of the two, set and clear change neither.
C15_Counters == [](C15_State) /\ [][C15_Step]_vars

C15_Witness ==
    /\ Len(ops) = 3
    /\ ops[1].op = "set" /\ ops[2].op = "get" /\ ops[3].op = "clear"
    /\ cache.hits = 1 /\ cache.misses = 0
    /\ cache.entries = <<>>

\* C16: _normalize_key applied twice gives what it gives applied once; two
\* location arguments that differ only in surrounding blanks, letter case
\* or, for coordinate pairs, blanks around the numbers and digits lost in
\* rounding to four decimals have the same key, and a value stored under
\* one is what get returns under the other.
C16_Normalization ==
    LET j == Len(ops)
        i == LastSet(j)
        key == normalize_key(ops[j].raw)
    IN  /\ JustKeyed =>
              /\ normalize_key(key) = key
              /\ \A k \in Keyed \ {j} :
                    SameLocation(ops[k].raw, ops[j].raw) =>
                        normalize_key(ops[k].raw) = key
        /\ (/\ JustGot
             /\ i # 0
             /\ ops[i].raw # ops[j].raw
             /\ ops[j].at < ops[i].at + CacheTtl
             /\ Kept(i, j))
            => ops[j].found /\ ops[j].value = ops[i].value

C16_Witness ==
    /\ Len(ops) = 2
    /\ ops[1].op = "set" /\ ops[2].op = "get"
    /\ ops[1].raw = <<"1", ".", "5", "0", "0", "0", "4", ",", " ", "2", ".", "0">>
    /\ ops[2].raw = <<"1", ".", "5", ",", "2">>
    /\ ops[2].found /\ ops[2].value = 1

\* C17: the location of every response handed to a caller is the stripped
\* location string of that caller, a response served from the cache
\* included.
C17_LocationEchoed ==
    (req.pc = "done" /\ req.end = "response") => req.response.location = req.location

\* the reading in the middle of an odd number of distinct readings
MiddleOf(R) ==
    CHOOSE x \in R : Cardinality({y \in R : y < x}) = Cardinality({y \in R : y > x})

\* the status _process_results must give the source record of a result
StatusFor(result) ==
    CASE result.kind = "data"    -> "success"
      [] result.kind = "failure" -> "failure"
      [] OTHER                   -> "failure with exception"

\* C18: a response built from the fan-out has exactly three source records,
\* for OpenWeatherMap, WeatherAPI and OpenMeteo in this order, whatever each
\* fetch produced (a result, a failure marker, None or an exception), and
\* aggregates the results with source status "success" and no others.
C18_ThreeSources ==
    (Aggregated /\ req.end = "response") =>
        LET sources == req.response.sources
            temperatures == Readings(Succeeded, "temperature")
        IN  /\ Len(sources) = 3
            /\ \A i \in 1..3 :
                  /\ sources[i].provider = Providers[i]
                  /\ sources[i].status = StatusFor(tasks[Providers[i]].result)
            /\ {Providers[i] : i \in {n \in 1..3 : sources[n].status = "success"}}
                  = Succeeded
            /\ Cardinality(temperatures) % 2 = 1 =>
                  req.response.temperature = Val(MiddleOf(temperatures))
            /\ req.response.humidity.null <=> Readings(Succeeded, "humidity") = {}

C18_Witness ==
    /\ Aggregated
    /\ req.end = "response"
    /\ tasks["OpenWeatherMap"].result.kind = "data"
    /\ tasks["WeatherAPI"].result.kind = "exception"
    /\ tasks["OpenMeteo"].result.kind = "None"
    /\ req.response.sources[3] = [provider |-> "OpenMeteo", status |-> "failure with exception"]

\* C19: every fetch_weather that has ended returned a normalized success
\* result or a failure marker; none raised.
C19_NeverRaises ==
    \A p \in Slots :
        tasks[p].pc = "done" => tasks[p].result.kind \in {"data", "failure"}

\* the geocoding request returned coordinates
GeocodeOk(o) == o.kind = "http" /\ o.code = 200 /\ o.body = "good"
GeocodeFailed(o) == o # NoOutcome /\ ~GeocodeOk(o)

C20_State ==
    LET t == tasks["OpenMeteo"]
        c == calls["OpenMeteo"]
    IN  /\ (~req.is_coords /\ t.pc = "running" /\ t.geo = NoOutcome) =>
              c.name = "Geocoding"
        /\ (~req.is_coords /\ c.name = "OpenMeteo") => GeocodeOk(t.geo)
        /\ GeocodeFailed(t.geo) =>
              /\ t.pc = "done"
              /\ t.result.kind = "None"
              /\ c = NoCall
        /\ (Aggregated /\ GeocodeFailed(t.geo)) =>
              /\ (Succeeded # {}) <=> (req.end = "response")
              /\ req.end = "response" =>
                    /\ req.response.sources[3].provider = "OpenMeteo"
                    /\ req.response.sources[3].status
                          \in {"failure", "failure with exception"}

C20_Step ==
    (calls["OpenMeteo"].name = "Geocoding" /\ calls'["OpenMeteo"].name = "OpenMeteo") =>
        /\ calls["OpenMeteo"].pc = "in_flight"
        /\ GeocodeOk(tasks'["OpenMeteo"].geo)

\* C20: for a city name OpenMeteoProvider issues the geocoding request
\* first and the forecast request only once geocoding returned
\* coordinates; when geocoding fails or returns no result, no forecast
\* request follows, fetch_weather returns None without raising, the
\* OpenMeteo source record is a failure, and the request still gets a
\* response exactly when another provider succeeded.
C20_GeocodeFirst == [](C20_State) /\ [][C20_Step]_vars

C20_Witness ==
    /\ Aggregated
    /\ req.end = "response"
    /\ ~req.is_coords
    /\ tasks["OpenMeteo"].geo.code = 404
    /\ Succeeded = {"WeatherAPI"}
    /\ req.response.sources[3].status = "failure with exception"

\* the activations that hold a token, and those asleep in wait_for_token
Acquired == {w \in DOMAIN calls : calls[w].pc = "in_flight"}
Suspended == {w \in DOMAIN calls : calls[w].pc = "token_sleep"}

\* C21: of the calls of wait_for_token made on a full bucket of capacity N
\* before any time has passed, the first N return at once and every further
\* one suspends; by time t no more than N + t * refill_rate calls have
\* returned, so that call N + 1 returns no earlier than 1 / refill_rate.
C21_BucketLaw ==
    LET rate == RATE_LIMITS("openweather").refill_per_sec
        entered == Acquired \cup Suspended
    IN  /\ Cardinality(Acquired) * TokenUnit <= MaxTokens * TokenUnit + now * rate
        /\ now = 0 => Cardinality(Acquired) = Min(Cardinality(entered), MaxTokens)
        /\ \A w \in Suspended : calls[w].wake * rate >= TokenUnit

C21_Witness ==
    /\ Cardinality(Acquired) = MaxTokens + 1
    /\ now * RATE_LIMITS("openweather").refill_per_sec = TokenUnit

\* validate_input_format was called on a string with n commas
Validated == probe.fn = "validate_input_format"
Commas == Count(probe.input, ",")

\* the token parses as a float; its magnitude is at most n
Numeric(token) == IsFloatLiteral(Strip(token))
AtMost(token, n) == PyFloat(Strip(token)).m <= n * (10 ^ PyFloat(Strip(token)).e)

\* C22: of the inputs with exactly one comma, validate_input_format accepts
\* those whose two tokens parse as floats with latitude in [-90, 90] and
\* longitude in [-180, 180], and rejects the others: a token that is no
\* number, a latitude out of range (the message names Latitude), a
\* longitude out of range with the latitude in range (the message names
\* Longitude).
C22_CoordinateValidation ==
    (Validated /\ Commas = 1) =>
        LET lat == BeforeComma(probe.input)
            lon == AfterComma(probe.input)
        IN  IF ~Numeric(lat) \/ ~Numeric(lon) THEN probe.output # ""
            ELSE IF ~AtMost(lat, 90) THEN probe.output = "Latitude out of range"
            ELSE IF ~AtMost(lon, 180) THEN probe.output = "Longitude out of range"
            ELSE probe.output = ""

C24_TooManyCommas == (Validated /\ Commas >= 2) => probe.output # ""

C24_Witness ==
    /\ Validated
    /\ probe.input = <<"0", ",", "0", ",", "a">>
    /\ probe.output = "Too many commas"

Built == probe.fn = "_build_response"
Called == probe.fn = "fetch_weather"

\* the data points of the call that report the field
Present(field) == {i \in 1..Len(probe.input) : ~probe.input[i][field].null}
Reading(i, field) == probe.input[i][field].v

\* the k-th smallest of the reported values of the field
Kth(field, k) ==
    CHOOSE x \in {Reading(i, field) : i \in Present(field)} :
        /\ Cardinality({i \in Present(field) : Reading(i, field) < x}) < k
        /\ Cardinality({i \in Present(field) : Reading(i, field) <= x}) >= k

Total(field) ==
    Sum([i \in 1..Len(probe.input) |->
            IF i \in Present(field) THEN Reading(i, field) ELSE 0])

Occurrences(d) ==
    Cardinality({i \in Present("description") : Reading(i, "description") = d})

\* C25: the temperature of the response is the median of the reported
\* temperatures (the middle one of an odd number, the mean of the two middle
\* ones of an even number, to the nearest tenth), and null exactly when no
\* data point reports a temperature.
C25_MedianTemperature ==
    Built =>
        LET n == Cardinality(Present("temperature"))
            out == probe.output.temperature
        IN  IF n = 0 THEN out.null
            ELSE /\ ~out.null
                 /\ IF n % 2 = 1 THEN out.v = Kth("temperature", (n + 1) \div 2)
                    ELSE LET twice == Kth("temperature", n \div 2)
                                      + Kth("temperature", n \div 2 + 1)
                         IN  /\ 2 * out.v - twice <= 1
                             /\ twice - 2 * out.v <= 1

\* four data points, three of which report a temperature, and two of them
\* the same one; and an even number with different middle values
C25_Witness ==
    /\ Built
    /\ Len(probe.input) = 4
    /\ Cardinality(Present("temperature")) = 3
    /\ probe.input[1].temperature = Val(290)
    /\ probe.input[2].temperature = Null
    /\ probe.input[3].temperature = Val(284)
    /\ probe.input[4].temperature = Val(288)
    /\ probe.output.temperature = Val(288)

\* C26: the humidity of the response is the sum of the reported humidities
\* divided by their number, to the nearest tenth, a humidity of 0 being a
\* reported one; it is null exactly when no data point reports a humidity.
C26_MeanHumidity ==
    Built =>
        LET n == Cardinality(Present("humidity"))
            out == probe.output.humidity
        IN  IF n = 0 THEN out.null
            ELSE /\ ~out.null
                 /\ 2 * (out.v * n - 10 * Total("humidity")) <= n
                 /\ 2 * (10 * Total("humidity") - out.v * n) <= n

\* [75, null, 0] averages to 37.5
C26_Witness ==
    /\ Built
    /\ Len(probe.input) = 3
    /\ probe.input[1].humidity = Val(75)
    /\ probe.input[2].humidity = Null
    /\ probe.input[3].humidity = Val(0)
    /\ probe.output.humidity = Val(375)

\* C27: the conditions of the response are a reported description that no
\* other reported description outnumbers, and the placeholder exactly when
\* no data point reports a description.
C27_ModeConditions ==
    Built =>
        LET out == probe.output.conditions
        IN  IF Present("description") = {} THEN out = "Weather data unavailable"
            ELSE /\ out # "Weather data unavailable"
                 /\ Occurrences(out) > 0
                 /\ \A i \in Present("description") :
                        Occurrences(Reading(i, "description")) <= Occurrences(out)

\* ["Clear", "Overcast", "Clear"] gives "Clear"
C27_Witness ==
    /\ Built
    /\ Len(probe.input) = 3
    /\ probe.input[1].description = Val("Clear")
    /\ probe.input[2].description = Val("Overcast")
    /\ probe.input[3].description = Val("Clear")
    /\ probe.output.conditions = "Clear"

\* C29: when make_api_request raises, fetch_weather of the providers that
\* use the template of BaseWeatherProvider raises too: no failure marker is
\* returned.
C29_ExceptionPropagates ==
    (/\ Called
     /\ probe.input.provider \in {"OpenWeatherMap", "WeatherAPI"}
     /\ probe.input.ret.kind = "raise")
        => probe.output.kind = "exception"

C29_Witness ==
    /\ Called
    /\ probe.input.provider = "OpenWeatherMap"
    /\ probe.input.ret = Raised
    /\ probe.output = ResultException

\* get_aggregated_weather ends by raising one of its three errors
RaisesError ==
    /\ req.pc # "done" /\ req'.pc = "done"
    /\ req'.end \in {"ValidationError", "ConfigurationError", "ProviderError"}

\* get_aggregated_weather ends by returning a response it built
ReturnsFresh == req.pc = "fetching" /\ req'.pc = "done" /\ req'.end = "response"

\* the cache maps the normalized location to the response
Holds(c, location, response) ==
    /\ <<normalize_key(location), response>> \in Contents(c, now)
    /\ CacheGet(c, location, now).found
    /\ CacheGet(c, location, now).value = response

C30_Step ==
    /\ RaisesError => Contents(cache', now') = Contents(cache, now)
    /\ Contents(cache', now') # Contents(cache, now) => ReturnsFresh
    /\ ReturnsFresh =>
            /\ Holds(cache', req'.location, req'.response)
            /\ Entry(req'.location, cache', api_keys', now').req.hit
            /\ Entry(req'.location, cache', api_keys', now').req.response = req'.response

\* C30: a call of get_aggregated_weather that raises ValidationError,
\* ConfigurationError or ProviderError leaves the cached mapping as it was,
\* no step but the return of a freshly built response changes it, and after
\* that return the cache maps the normalized location to that response, so
\* that the same request made at once is answered from the cache.
C30_WrittenOnSuccess == [][C30_Step]_vars

\* the second request built a response and the cache holds it
C30_Witness ==
    /\ started = 2
    /\ req.pc = "done" /\ req.end = "response" /\ ~req.hit
    /\ Holds(cache, req.location, req.response)
    /\ Len(cache.entries) = 1

\* activation r missed the cache and has ended
MissedAndEnded(r) == req[r].pc = "done" /\ ~req[r].hit

\* the outcomes of the fetch_weather coroutines that activation r created
OwnSources(r) == [i \in 1..Len(Providers) |-> tasks[r][Providers[i]].result.source]

Parseable200(o) == o.kind = "http" /\ o.code = 200 /\ o.body # "unparseable"

Unparseable200 == [kind |-> "http", code |-> 200, body |-> "unparseable"]

\* the call in slot s returns success in this step
ReturnsSuccess(s) ==
    /\ calls[s].pc = "in_flight"
    /\ calls'[s].pc = "done"
    /\ calls'[s].ret.status = "success"

C31_State ==
    \A s \in Slots :
        /\ calls[s].ret.status = "success" =>
              /\ calls[s].pc = "done"
              /\ calls[s].ret.attempts = calls[s].gets
              /\ calls[s].ret.data \notin {"unparseable", "none"}
        /\ calls[s].pc = "in_flight" =>
              LET n == Responded(calls[s], Unparseable200, buckets[calls[s].key]).call
              IN  /\ n.ret.status # "success"
                  /\ n.pc = (IF calls[s].attempt < MAX_RETRIES THEN "backoff" ELSE "done")
                  /\ n.last_error.msg = "Invalid JSON response"

C31_Step ==
    \A s \in Slots :
        ReturnsSuccess(s) =>
            /\ calls'[s].ret.attempts = calls[s].attempt + 1
            /\ \A o \in HttpOutcomes :
                  Responded(calls[s], o, buckets[calls[s].key]).call = calls'[s]
                      => Parseable200(o)

\* C31: make_api_request returns success only out of an attempt whose GET
\* was answered 200 with a parseable body, and with attempts the 1-based
\* index of that attempt; a 200 whose body does not parse sets last_error
\* and goes on to the next attempt, or to the failure after the last one.
C31_SuccessOnlyOn200 == [](C31_State) /\ [][C31_Step]_vars

\* success at the second attempt, after a 200 whose body did not parse
C31_Witness ==
    \E s \in Slots :
        /\ calls[s].pc = "done"
        /\ calls[s].ret.status = "success"
        /\ calls[s].ret.attempts = 2
        /\ calls[s].last_error.msg = "Invalid JSON response"

\* min(max_delay, base_delay x multiplier^a), in milliseconds
Backoff(a) ==
    IF BASE_DELAY * (BACKOFF_MULTIPLIER ^ a) < MAX_DELAY
    THEN BASE_DELAY * (BACKOFF_MULTIPLIER ^ a) ELSE MAX_DELAY

\* C32: a call of make_api_request has gone into as many backoff sleeps as
\* the zero-based index of its current attempt, none before the first one,
\* and the delay before jitter of the sleep before the attempt with index
\* a >= 1 is min(max_delay, base_delay x multiplier^a).
C32_BackoffBeforeRetry ==
    \A s \in Slots :
        calls[s].pc \in {"in_flight", "backoff", "done"} /\ calls[s].ret.kind # "raise" =>
            /\ calls[s].pc # "done" => Len(calls[s].slept) = calls[s].attempt
            /\ \A a \in 1..Len(calls[s].slept) : calls[s].slept[a] = Backoff(a)

Delayed == probe.fn = "calculate_retry_delay"

\* C33: calculate_retry_delay(n) is at least d x (1 - jitter_factor) and
\* 0.1 s and at most d x (1 + jitter_factor), d being
\* min(max_delay, base_delay x multiplier^n); so it is at most
\* max_delay x (1 + jitter_factor); and d does not decrease with n.
C33_RetryDelayRange ==
    Delayed =>
        LET n == probe.input.attempt
            d == Backoff(n)
            out == probe.output
        IN  /\ 100 * out >= d * (100 - JITTER_FACTOR)
            /\ out >= MIN_DELAY
            /\ 100 * out <= d * (100 + JITTER_FACTOR)
            /\ 100 * out <= MAX_DELAY * (100 + JITTER_FACTOR)
            /\ n > 0 => Backoff(n - 1) <= d

\* the cap holds the delay at max_delay and the jitter is at its lowest
C33_Witness ==
    /\ Delayed
    /\ BASE_DELAY * (BACKOFF_MULTIPLIER ^ probe.input.attempt) > MAX_DELAY
    /\ probe.input.k = 0 - JitterSteps
    /\ 100 * probe.output = MAX_DELAY * (100 - JITTER_FACTOR)

\* C34: every caller of wait_for_token, suspended or not, gets to the
\* return, and has then taken exactly one token from the bucket.
C34_EveryCallerReturns ==
    \A w \in Callers :
        (calls[w].pc \in {"start", "token_sleep"})
            ~> (calls[w].pc = "in_flight" /\ calls[w].took = TokenUnit)

\* more callers than the bucket holds tokens, and all of them have returned
C34_Witness ==
    /\ Cardinality(Callers) > MaxTokens
    /\ \A w \in Callers : calls[w].pc = "in_flight" /\ calls[w].took = TokenUnit
    /\ buckets["openweather"].tokens < TokenUnit

\* C35: _build_response called again on the same data points, ties among
\* the descriptions included, returns the same conditions as before.
C35_TieBrokenTheSameWay ==
    probe.fn = "_build_response, again" =>
        probe.again.conditions = probe.output.conditions

\* the sessions that are open
OpenSessions == {i \in 1..Len(client.closed) : ~client.closed[i]}

\* get_global_session was called in this step
GotSession == client'.got # client.got \/ Len(client'.closed) # Len(client.closed)

C36_State == \A i \in OpenSessions : client.global = i

C36_Step == OpenSessions # {} /\ GotSession => client'.got \in OpenSessions

\* C36: while a session is open, get_global_session returns that session;
\* and every session that is open is the one _global_session refers to, so
\* that none is let go of before it is closed, whatever get_global_session
\* did while a close_global_session was suspended.
C36_SessionNeverDropped == [](C36_State) /\ [][C36_Step]_vars

\* the calls of make_api_request on key k that took a step
Stepped(k) == {s \in Slots : calls[s].key = k /\ calls'[s] # calls[s]}

\* what _refill makes of the bucket of key k, in 1/TokenUnit of a token
Refilled(k) ==
    IF buckets[k].tokens + (now - buckets[k].last_refill) * buckets[k].refill_rate
           < buckets[k].max_tokens
    THEN buckets[k].tokens + (now - buckets[k].last_refill) * buckets[k].refill_rate
    ELSE buckets[k].max_tokens

C37_Step ==
    \A k \in Keys :
        /\ Stepped(k) = {} => buckets'[k] = buckets[k]
        /\ buckets[k].exists =>
              /\ buckets'[k].exists
              /\ buckets'[k].max_tokens = buckets[k].max_tokens
              /\ buckets'[k].refill_rate = buckets[k].refill_rate
              /\ \A s \in Stepped(k) :
                    IF calls'[s].took > calls[s].took
                    THEN buckets'[k].tokens + TokenUnit = Refilled(k)
                    ELSE IF calls'[s].gave > calls[s].gave
                    THEN buckets'[k].tokens = buckets[k].tokens
                                               + (calls'[s].gave - calls[s].gave)
                    ELSE buckets'[k].tokens \in {buckets[k].tokens, Refilled(k)}

\* C37: a step of make_api_request on one key changes no bucket but that
\* key's; and a bucket, once created, stays: its capacity and rate stay,
\* and its level moves only by refill, by the token taken and by the token
\* given back, never back to what a new bucket starts with.
C37_OwnBucket == [][C37_Step]_vars

\* a token went back to the OpenWeatherMap bucket while the WeatherAPI
\* bucket had given out one, and nobody has asked for the Open-Meteo one
C37_Witness ==
    /\ calls["OpenWeatherMap"].key = "openweather" /\ calls["OpenWeatherMap"].gave > 0
    /\ calls["WeatherAPI"].key = "weatherapi" /\ calls["WeatherAPI"].took > 0
    /\ buckets["weatherapi"].exists
    /\ buckets["weatherapi"].tokens < buckets["weatherapi"].max_tokens
    /\ buckets["openweather"].tokens # buckets["weatherapi"].tokens
    /\ ~buckets["openmeteo"].exists

\* the tokens gone from the bucket of key k since it was full
Used(k) ==
    IF buckets[k].exists
    THEN (buckets[k].max_tokens - buckets[k].tokens) \div TokenUnit
    ELSE 0

\* the first request, on buckets that were full and with no time for a
\* refill, has missed the cache and come back from asyncio.gather
FirstAggregated == started = 1 /\ Aggregated

LiveKeys(c) == {kv[1] : kv \in Contents(c, now)}

\* the last call of get or set so far that named the key
LastUse(k) ==
    CHOOSE j \in 1..Len(ops) :
        /\ normalize_key(ops[j].raw) = k
        /\ \A i \in (j + 1)..Len(ops) : normalize_key(ops[i].raw) # k

\* the key in the cache that has gone longest without a get or a set
LeastRecentlyUsed ==
    CHOOSE k \in LiveKeys(cache) :
        \A other \in LiveKeys(cache) : LastUse(k) <= LastUse(other)

\* this step is a set of a key that is not in the cache, which is full of
\* unexpired entries
SetsOnFull ==
    /\ Len(ops') = Len(ops) + 1
    /\ ops'[Len(ops')].op = "set"
    /\ normalize_key(ops'[Len(ops')].raw) \notin LiveKeys(cache)
    /\ Cardinality(LiveKeys(cache)) = SmallMaxSize

C39_Step ==
    SetsOnFull =>
        LET o == ops'[Len(ops')]
        IN  /\ Contents(cache', now')
                  = {kv \in Contents(cache, now) : kv[1] # LeastRecentlyUsed}
                    \cup {<<normalize_key(o.raw), o.value>>}
            /\ \A kv \in Contents(cache, now) :
                  kv[1] # LeastRecentlyUsed =>
                      /\ CacheGet(cache', kv[1], now').found
                      /\ CacheGet(cache', kv[1], now').value = kv[2]

\* C39: a set of a new key on a cache that holds max_size unexpired entries
\* removes exactly the entry that has gone longest without a get or a set,
\* and every other entry is still returned by get, with its value.
C39_EvictsLeastRecentlyUsed == [][C39_Step]_vars

\* set a, set b, get a, set c: b is gone, a and c are there
C39_Witness ==
    /\ Len(ops) = 4
    /\ ops[1].op = "set" /\ ops[2].op = "set" /\ ops[3].op = "get" /\ ops[4].op = "set"
    /\ ops[3].raw = ops[1].raw /\ ops[3].found
    /\ ops[2].raw # ops[1].raw /\ ops[4].raw \notin {ops[1].raw, ops[2].raw}
    /\ LiveKeys(cache) = {normalize_key(ops[1].raw), normalize_key(ops[4].raw)}

====
